---- MODULE Spec2Model ----
(***************************************************************************)
(* A model of the gosh shell: the tab-completion engine                    *)
(* (internal/completion, shellCompleter.Do), the command-line parser       *)
(* (internal/parser), the command history (internal/history), and the      *)
(* read-eval loop with its built-in commands and signal handling           *)
(* (internal/shell).                                                       *)
(*                                                                         *)
(* A Go string is modelled as a sequence of bytes and a []rune as a        *)
(* sequence of runes.  An ASCII byte and an ASCII rune are both written as *)
(* a one-character string; the rune U+00E9 is the one multi-byte rune of   *)
(* the model (UTF-8 bytes C3 A9).                                          *)
(***************************************************************************)
EXTENDS Integers, Sequences, FiniteSets, TLC

VARIABLES
    line,       \* readline buffer, a sequence of runes
    pos,        \* cursor, an index into line counted in runes
    cfg,        \* the completion part of config.Config
    comp,       \* what Manager.Complete returned to the last Do, or NoResult
    tab,        \* what shellCompleter.Do returned last, or NoResult
    cmdline,    \* the line handed to the parser
    osenv,      \* the process environment
    pres,       \* the last parser operation and what it returned, or NoResult
    cwd,        \* the working directory of the process
    loop,       \* where Shell.mainLoop stands
    nread,      \* the number of lines read so far
    ctxDone,    \* whether the shell's context is cancelled
    sigChan,    \* the signals buffered in sigChan
    listener,   \* whether the signal goroutine is still running
    child,      \* the external command in flight, or NoResult
    report,     \* what the last iteration of the main loop did, or NoResult
    history,    \* the entries and the cursor of history.Manager
    hcall,      \* the last call of history.Manager and what it returned, or NoResult
    display,    \* the completions and the width to be displayed
    shown       \* what the display functions returned last, or NoResult

compVars == <<line, pos, comp, tab>>
parserVars == <<cmdline, osenv, pres>>
shellVars == <<cwd, loop, nread, ctxDone, sigChan, listener, child, report>>
histVars == <<history, hcall>>
dispVars == <<display, shown>>

NoResult == [called |-> FALSE]

\* the shell is not running
NoShell ==
    /\ cwd = <<"/", "w">>
    /\ loop = "none"
    /\ nread = 0
    /\ ctxDone = FALSE
    /\ sigChan = <<>>
    /\ listener = FALSE
    /\ child = NoResult
    /\ report = NoResult

\* no history manager is in use
NoHistory ==
    /\ history = [entries |-> <<>>, current |-> -1]
    /\ hcall = NoResult

\* nothing is to be displayed
NoDisplay ==
    /\ display = [completions |-> <<>>, maxWidth |-> 0]
    /\ shown = NoResult

--------------------------------------------------------------------------
(* Runes, bytes and the conversions between them *)

RuneE9 == "U+00E9"
RuneError == "U+FFFD"

ContinuationBytes == {"xA9", "xBF", "xBD"}
LeadBytes == {"xC3", "xEF"}

RECURSIVE Flatten(_)
Flatten(ss) == IF ss = <<>> THEN <<>> ELSE Head(ss) \o Flatten(Tail(ss))

EncodeRune(r) ==
    IF r = RuneE9 THEN <<"xC3", "xA9">>
    ELSE IF r = RuneError THEN <<"xEF", "xBF", "xBD">>
    ELSE <<r>>

\* string(line) for line []rune
StringOfRunes(rs) == Flatten([i \in 1..Len(rs) |-> EncodeRune(rs[i])])

\* []rune(s) for a string s: an invalid byte decodes to U+FFFD
RECURSIVE RunesOfString(_)
RunesOfString(s) ==
    IF s = <<>> THEN <<>>
    ELSE IF Len(s) >= 2 /\ s[1] = "xC3" /\ s[2] = "xA9"
         THEN <<RuneE9>> \o RunesOfString(SubSeq(s, 3, Len(s)))
    ELSE IF Len(s) >= 3 /\ s[1] = "xEF" /\ s[2] = "xBF" /\ s[3] = "xBD"
         THEN <<RuneError>> \o RunesOfString(SubSeq(s, 4, Len(s)))
    ELSE IF s[1] \in LeadBytes \cup ContinuationBytes
         THEN <<RuneError>> \o RunesOfString(Tail(s))
    ELSE <<s[1]>> \o RunesOfString(Tail(s))

--------------------------------------------------------------------------
(* package strings *)

HasPrefix(s, p) == Len(p) <= Len(s) /\ SubSeq(s, 1, Len(p)) = p

HasSuffix(s, p) == Len(p) <= Len(s) /\ SubSeq(s, Len(s) - Len(p) + 1, Len(s)) = p

Contains(s, c) == \E i \in 1..Len(s) : s[i] = c

\* unicode.IsSpace restricted to the bytes a line can hold
IsSpace(b) == b \in {" ", "\t", "\n", "\r"}

RECURSIVE FieldsFrom(_, _, _)
FieldsFrom(s, i, cur) ==
    LET flush == IF cur = <<>> THEN <<>> ELSE <<cur>>
    IN  IF i > Len(s) THEN flush
        ELSE IF IsSpace(s[i]) THEN flush \o FieldsFrom(s, i + 1, <<>>)
        ELSE FieldsFrom(s, i + 1, Append(cur, s[i]))

Fields(s) == FieldsFrom(s, 1, <<>>)

LowerByte(b) ==
    CASE b = "A" -> "a"
      [] b = "C" -> "c"
      [] b = "D" -> "d"
      [] b = "E" -> "e"
      [] b = "F" -> "f"
      [] b = "H" -> "h"
      [] b = "O" -> "o"
      [] OTHER -> b

ToLower(s) == [i \in 1..Len(s) |-> LowerByte(s[i])]

\* the bytes of the model in increasing byte value
ByteOrder ==
    <<"\t", "\n", "\r", " ", "-", ".", "/", "A", "C", "D", "E", "F", "H", "O", "_",
      "a", "b", "c", "d", "e", "f", "g", "h", "i", "j", "k", "l", "m",
      "n", "o", "p", "q", "r", "s", "t", "u", "v", "w", "x", "y", "z",
      "~", "xA9", "xBD", "xBF", "xC3", "xEF">>

Ord(b) == CHOOSE i \in 1..Len(ByteOrder) : ByteOrder[i] = b

RECURSIVE StrLess(_, _)
StrLess(a, b) ==
    IF b = <<>> THEN FALSE
    ELSE IF a = <<>> THEN TRUE
    ELSE IF a[1] = b[1] THEN StrLess(Tail(a), Tail(b))
    ELSE Ord(a[1]) < Ord(b[1])

RECURSIVE InsertSorted(_, _)
InsertSorted(x, sorted) ==
    IF sorted = <<>> THEN <<x>>
    ELSE IF StrLess(Head(sorted), x) THEN <<Head(sorted)>> \o InsertSorted(x, Tail(sorted))
    ELSE <<x>> \o sorted

\* sort.Strings
RECURSIVE SortStrings(_)
SortStrings(l) == IF l = <<>> THEN <<>> ELSE InsertSorted(Head(l), SortStrings(Tail(l)))

--------------------------------------------------------------------------
(* package path/filepath, for slash-separated paths without ".." elements *)

RECURSIVE SplitFrom(_, _, _, _)
SplitFrom(s, sep, i, cur) ==
    IF i > Len(s) THEN <<cur>>
    ELSE IF s[i] = sep THEN <<cur>> \o SplitFrom(s, sep, i + 1, <<>>)
    ELSE SplitFrom(s, sep, i + 1, Append(cur, s[i]))

\* strings.Split(s, sep) for a one-byte separator
Split(s, sep) == SplitFrom(s, sep, 1, <<>>)

RECURSIVE JoinStrings(_, _)
JoinStrings(parts, sep) ==
    IF parts = <<>> THEN <<>>
    ELSE IF Len(parts) = 1 THEN parts[1]
    ELSE parts[1] \o sep \o JoinStrings(Tail(parts), sep)

\* filepath.Clean
Clean(p) ==
    LET all == Split(p, "/")
        keep == SelectSeq(all, LAMBDA c : c # <<>> /\ c # <<".">>)
        rooted == p # <<>> /\ p[1] = "/"
        out == (IF rooted THEN <<"/">> ELSE <<>>) \o JoinStrings(keep, <<"/">>)
    IN  IF out = <<>> THEN <<".">> ELSE out

LastSlash(p) == IF Contains(p, "/") THEN CHOOSE i \in 1..Len(p) : p[i] = "/" /\ \A j \in (i + 1)..Len(p) : p[j] # "/" ELSE 0

\* filepath.Dir
Dir(p) == Clean(SubSeq(p, 1, LastSlash(p)))

RECURSIVE StripTrailingSlashes(_)
StripTrailingSlashes(p) ==
    IF p # <<>> /\ p[Len(p)] = "/" THEN StripTrailingSlashes(SubSeq(p, 1, Len(p) - 1)) ELSE p

\* filepath.Base
Base(p) ==
    IF p = <<>> THEN <<".">>
    ELSE LET q == StripTrailingSlashes(p)
             b == SubSeq(q, LastSlash(q) + 1, Len(q))
         IN  IF b = <<>> THEN <<"/">> ELSE b

\* filepath.Join(dir, name) for non-empty dir and name
Join(dir, name) == Clean(dir \o <<"/">> \o name)

--------------------------------------------------------------------------
(* The file system the completion engine reads.  ReadDir gives the entries *)
(* of a directory sorted by name, or fails.                                *)

File(n) == [name |-> n, isDir |-> FALSE, exec |-> FALSE]
Exe(n) == [name |-> n, isDir |-> FALSE, exec |-> TRUE]
Folder(n) == [name |-> n, isDir |-> TRUE, exec |-> TRUE]

HomeDir == <<"/", "h">>

ReadDir(dir) ==
    CASE dir = <<".">> -> [ok |-> TRUE, entries |-> <<File(<<".", "e", "n", "v">>), File(<<"F", "o", "b">>), File(<<"f", "o", "o">>), Folder(<<"s", "r", "c">>)>>]
      [] dir = <<"s", "r", "c">> -> [ok |-> TRUE, entries |-> <<File(<<"m", "a", "i", "n">>)>>]
      [] dir = HomeDir -> [ok |-> TRUE, entries |-> <<File(<<"f", "u", "n">>)>>]
      [] dir = <<"/", "b", "i", "n">> -> [ok |-> TRUE, entries |-> <<Exe(<<"c", "d">>), Exe(<<"g", "i", "t">>), Folder(<<"l", "i", "b">>), Exe(<<"l", "s">>), File(<<"l", "s", "m", "o", "d">>)>>]
      [] dir = <<"/", "u", "s", "r", "/", "b", "i", "n">> -> [ok |-> TRUE, entries |-> <<Exe(<<"g", "i", "t">>), Exe(<<"g", "o">>)>>]
      [] OTHER -> [ok |-> FALSE, entries |-> <<>>]

DefaultAliases == [n \in {<<"l", "l">>, <<"l", "a">>, <<"l">>} |->
                      IF n = <<"l", "l">> THEN <<"l", "s", " ", "-", "l", "a">> ELSE IF n = <<"l", "a">> THEN <<"l", "s", " ", "-", "A">> ELSE <<"l", "s", " ", "-", "C", "F">>]

PathDirs == <<<<"/", "b", "i", "n">>, <<>>, <<"/", "n", "o", "p", "e">>, <<"/", "u", "s", "r", "/", "b", "i", "n">>>>

--------------------------------------------------------------------------
(* internal/completion: Manager *)

MinTokensForCompletion == 2

\* the elements of a finite set of strings as a sequence (the order of a Go
\* map iteration is unspecified; every user sorts the result)
RECURSIVE SeqOfSet(_)
SeqOfSet(S) ==
    IF S = {} THEN <<>>
    ELSE LET x == CHOOSE y \in S : \A z \in S : z = y \/ StrLess(y, z)
         IN  <<x>> \o SeqOfSet(S \ {x})

filterCompletionsByPrefix(options, prefix) ==
    SelectSeq(options, LAMBDA o : HasPrefix(o, prefix))

RECURSIVE removeDuplicatesFrom(_, _)
removeDuplicatesFrom(slice, seen) ==
    IF slice = <<>> THEN <<>>
    ELSE IF Head(slice) \in seen THEN removeDuplicatesFrom(Tail(slice), seen)
    ELSE <<Head(slice)>> \o removeDuplicatesFrom(Tail(slice), seen \cup {Head(slice)})

\* removeDuplicates, had it kept every element
keepDuplicates(slice) == slice

removeDuplicates(slice) == removeDuplicatesFrom(slice, {})

isExecutable(entry) == ~entry.isDir /\ entry.exec

\* the names completeFromPath appends for the directories dirs, given the
\* names already seen
RECURSIVE completeFromDirs(_, _, _)
completeFromDirs(dirs, prefix, seen) ==
    IF dirs = <<>> THEN <<>>
    ELSE LET dir == Head(dirs)
             rd == ReadDir(dir)
             found == IF dir = <<>> \/ ~rd.ok THEN <<>>
                      ELSE LET ok == SelectSeq(rd.entries,
                                        LAMBDA e : HasPrefix(e.name, prefix)
                                                   /\ e.name \notin seen
                                                   /\ isExecutable(e))
                           IN  [i \in 1..Len(ok) |-> ok[i].name]
         IN  found \o completeFromDirs(Tail(dirs), prefix,
                                       seen \cup {found[i] : i \in 1..Len(found)})

completeFromPath(prefix) == completeFromDirs(PathDirs, prefix, {})

Builtins == <<<<"c", "d">>, <<"p", "w", "d">>, <<"e", "x", "i", "t">>, <<"h", "e", "l", "p">>, <<"h", "i", "s", "t", "o", "r", "y">>, <<"a", "l", "i", "a", "s">>, <<"e", "x", "p", "o", "r", "t">>>>

completeCommand(prefix, c) ==
    LET fromBuiltins == filterCompletionsByPrefix(Builtins, prefix)
        fromAliases == filterCompletionsByPrefix(SeqOfSet(DOMAIN c.Aliases), prefix)
        completions == fromBuiltins \o fromAliases \o completeFromPath(prefix)
    IN  [ctx |-> "command", prefix |-> prefix, err |-> FALSE,
         list |-> SortStrings(removeDuplicates(completions))]

parseFilePrefix(prefix) ==
    IF Contains(prefix, "/")
    THEN [dir |-> Dir(prefix), filePrefix |-> Base(prefix)]
    ELSE [dir |-> <<".">>, filePrefix |-> prefix]

expandHomeDirectory(dir) ==
    IF HasPrefix(dir, <<"~", "/">>) THEN Join(HomeDir, SubSeq(dir, 3, Len(dir)))
    ELSE IF dir = <<"~">> THEN HomeDir
    ELSE dir

matchesPrefix(name, filePrefix, c) ==
    IF c.CompletionCaseInsensitive
    THEN HasPrefix(ToLower(name), ToLower(filePrefix))
    ELSE HasPrefix(name, filePrefix)

buildCompletion(name, dir) == IF dir = <<".">> THEN name ELSE Join(dir, name)

\* the completion string of one directory entry, or the empty string
processFileEntry(entry, filePrefix, dir, c) ==
    IF ~c.CompletionShowHidden /\ HasPrefix(entry.name, <<".">>) THEN <<>>
    ELSE IF ~matchesPrefix(entry.name, filePrefix, c) THEN <<>>
    ELSE buildCompletion(entry.name, dir) \o (IF entry.isDir THEN <<"/">> ELSE <<>>)

\* completeFile, had it answered an unreadable directory with no completions
\* and no error
completeFileSilent(prefix, c) ==
    LET pf == parseFilePrefix(prefix)
        expandedDir == expandHomeDirectory(pf.dir)
        rd == ReadDir(expandedDir)
        each == [i \in 1..Len(rd.entries) |->
                    processFileEntry(rd.entries[i], pf.filePrefix, expandedDir, c)]
    IN  [ctx |-> "file", prefix |-> prefix, err |-> FALSE,
         list |-> SortStrings(SelectSeq(each, LAMBDA s : s # <<>>))]

completeFile(prefix, c) ==
    LET pf == parseFilePrefix(prefix)
        expandedDir == expandHomeDirectory(pf.dir)
        rd == ReadDir(expandedDir)
        each == [i \in 1..Len(rd.entries) |->
                    processFileEntry(rd.entries[i], pf.filePrefix, expandedDir, c)]
    IN  IF ~rd.ok THEN [ctx |-> "file", prefix |-> prefix, err |-> TRUE, list |-> <<>>]
        ELSE [ctx |-> "file", prefix |-> prefix, err |-> FALSE,
              list |-> SortStrings(SelectSeq(each, LAMBDA s : s # <<>>))]

getLastTokenPrefix(tokens) ==
    IF Len(tokens) > MinTokensForCompletion THEN tokens[Len(tokens)] ELSE <<>>

GitSubcommands ==
    <<<<"a", "d", "d">>, <<"b", "r", "a", "n", "c", "h">>, <<"c", "h", "e", "c", "k", "o", "u", "t">>, <<"c", "l", "o", "n", "e">>, <<"c", "o", "m", "m", "i", "t">>, <<"d", "i", "f", "f">>, <<"f", "e", "t", "c", "h">>,
      <<"i", "n", "i", "t">>, <<"l", "o", "g">>, <<"m", "e", "r", "g", "e">>, <<"p", "u", "l", "l">>, <<"p", "u", "s", "h">>, <<"r", "e", "b", "a", "s", "e">>, <<"r", "e", "m", "o", "t", "e">>,
      <<"r", "e", "s", "e", "t">>, <<"s", "h", "o", "w">>, <<"s", "t", "a", "t", "u", "s">>, <<"s", "w", "i", "t", "c", "h">>, <<"t", "a", "g">>>>

completeGitSubcommands(prefix) ==
    [ctx |-> "git-subcommand", prefix |-> prefix, err |-> FALSE,
     list |-> filterCompletionsByPrefix(GitSubcommands, prefix)]

GitBranches == <<<<"m", "a", "i", "n">>, <<"m", "a", "s", "t", "e", "r">>, <<"d", "e", "v", "e", "l", "o", "p">>, <<"f", "e", "a", "t", "u", "r", "e", "/">>, <<"b", "u", "g", "f", "i", "x", "/">>, <<"h", "o", "t", "f", "i", "x", "/">>>>

completeGitBranches(tokens, c) ==
    LET prefix == IF Len(tokens) > MinTokensForCompletion THEN tokens[Len(tokens)] ELSE <<>>
    IN  IF c.GitEnabled
        THEN [ctx |-> "git-branch", prefix |-> prefix, err |-> FALSE,
              list |-> filterCompletionsByPrefix(GitBranches, prefix)]
        ELSE [ctx |-> "git-branch", prefix |-> prefix, err |-> FALSE, list |-> <<>>]

completeGitModifiedFiles(tokens, c) ==
    LET prefix == IF Len(tokens) > MinTokensForCompletion THEN tokens[Len(tokens)] ELSE <<>>
    IN  [completeFile(prefix, c) EXCEPT !.ctx = "git-add-file"]

GitCommitOptions == <<<<"-", "m">>, <<"-", "-", "m", "e", "s", "s", "a", "g", "e">>, <<"-", "a">>, <<"-", "-", "a", "l", "l">>, <<"-", "-", "a", "m", "e", "n", "d">>, <<"-", "v">>, <<"-", "-", "v", "e", "r", "b", "o", "s", "e">>>>

completeGitCommitOptions(tokens) ==
    [ctx |-> "git-commit-option", prefix |-> getLastTokenPrefix(tokens), err |-> FALSE,
     list |-> filterCompletionsByPrefix(GitCommitOptions, getLastTokenPrefix(tokens))]

GitRemotes == <<<<"o", "r", "i", "g", "i", "n">>, <<"u", "p", "s", "t", "r", "e", "a", "m">>>>

completeGitRemotes(tokens) ==
    [ctx |-> "git-remote", prefix |-> getLastTokenPrefix(tokens), err |-> FALSE,
     list |-> filterCompletionsByPrefix(GitRemotes, getLastTokenPrefix(tokens))]

GitRemoteSubcommands == <<<<"a", "d", "d">>, <<"r", "e", "m", "o", "v", "e">>, <<"r", "e", "n", "a", "m", "e">>, <<"s", "h", "o", "w">>, <<"p", "r", "u", "n", "e">>, <<"u", "p", "d", "a", "t", "e">>>>

completeGitRemoteSubcommands(tokens) ==
    [ctx |-> "git-remote-subcommand", prefix |-> getLastTokenPrefix(tokens), err |-> FALSE,
     list |-> filterCompletionsByPrefix(GitRemoteSubcommands, getLastTokenPrefix(tokens))]

GitRefs == <<<<"H", "E", "A", "D">>, <<"m", "a", "i", "n">>, <<"m", "a", "s", "t", "e", "r">>, <<"d", "e", "v", "e", "l", "o", "p">>, <<"o", "r", "i", "g", "i", "n", "/", "m", "a", "i", "n">>, <<"o", "r", "i", "g", "i", "n", "/", "m", "a", "s", "t", "e", "r">>>>

completeGitRefs(tokens) ==
    [ctx |-> "git-ref", prefix |-> getLastTokenPrefix(tokens), err |-> FALSE,
     list |-> filterCompletionsByPrefix(GitRefs, getLastTokenPrefix(tokens))]

completeGit(tokens, cursorPos, input, c) ==
    IF Len(tokens) < MinTokensForCompletion THEN completeGitSubcommands(<<>>)
    ELSE LET subcommand == tokens[2]
         IN  IF Len(tokens) = 2 /\ ~HasSuffix(SubSeq(input, 1, cursorPos), <<" ">>)
             THEN completeGitSubcommands(subcommand)
             ELSE CASE subcommand \in {<<"c", "h", "e", "c", "k", "o", "u", "t">>, <<"c", "o">>, <<"s", "w", "i", "t", "c", "h">>} -> completeGitBranches(tokens, c)
                    [] subcommand = <<"b", "r", "a", "n", "c", "h">> -> completeGitBranches(tokens, c)
                    [] subcommand = <<"m", "e", "r", "g", "e">> -> completeGitBranches(tokens, c)
                    [] subcommand = <<"a", "d", "d">> -> completeGitModifiedFiles(tokens, c)
                    [] subcommand = <<"c", "o", "m", "m", "i", "t">> -> completeGitCommitOptions(tokens)
                    [] subcommand \in {<<"p", "u", "s", "h">>, <<"p", "u", "l", "l">>} -> completeGitRemotes(tokens)
                    [] subcommand = <<"r", "e", "m", "o", "t", "e">> -> completeGitRemoteSubcommands(tokens)
                    [] subcommand \in {<<"l", "o", "g">>, <<"s", "h", "o", "w">>, <<"d", "i", "f", "f">>} -> completeGitRefs(tokens)
                    [] OTHER -> [completeFile(tokens[Len(tokens)], c) EXCEPT !.ctx = "git-file"]

\* Manager.Complete: the completer selected (ctx), the prefix handed to it,
\* the completions and whether an error is returned
Complete(input, cursorPos, c) ==
    IF ~c.CompletionEnabled
    THEN [ctx |-> "disabled", prefix |-> <<>>, err |-> FALSE, list |-> <<>>]
    ELSE LET tokens == Fields(SubSeq(input, 1, cursorPos))
         IN  IF Len(tokens) = 0 THEN completeCommand(<<>>, c)
             ELSE IF Len(tokens) = 1 /\ ~HasSuffix(SubSeq(input, 1, cursorPos), <<" ">>)
                  THEN completeCommand(tokens[1], c)
             ELSE IF Len(tokens) >= 1 /\ tokens[1] = <<"g", "i", "t">>
                  THEN completeGit(tokens, cursorPos, input, c)
             ELSE completeFile(tokens[Len(tokens)], c)

--------------------------------------------------------------------------
(* internal/shell: shellCompleter *)

\* the loop of Do that walks wordStart back from pos to the byte after the
\* nearest preceding space or tab
RECURSIVE WordStart(_, _)
WordStart(lineStr, wordStart) ==
    IF wordStart > 0 /\ lineStr[wordStart] # " " /\ lineStr[wordStart] # "\t"
    THEN WordStart(lineStr, wordStart - 1)
    ELSE wordStart

\* one element of the result of Do
Candidate(completion, currentWord) ==
    IF HasPrefix(completion, currentWord)
    THEN RunesOfString(SubSeq(completion, Len(currentWord) + 1, Len(completion)))
    ELSE RunesOfString(completion)

Do(ln, p, c) ==
    LET lineStr == StringOfRunes(ln)
        r == Complete(lineStr, p, c)
        currentWord == SubSeq(lineStr, WordStart(lineStr, p) + 1, p)
    IN  IF r.err \/ Len(r.list) = 0 THEN [called |-> TRUE, newLine |-> <<>>, length |-> 0]
        ELSE [called |-> TRUE,
              newLine |-> [i \in 1..Len(r.list) |-> Candidate(r.list[i], currentWord)],
              length |-> Len(currentWord)]

--------------------------------------------------------------------------
(* The interactive line: the user types words and separators at the end of *)
(* the buffer, moves the cursor, and presses Tab.                          *)

MaxWords == 3
MaxBack == 1

Separators == {" ", "\t"}

FirstWords == {<<"g", "i", "t">>, <<"h">>, <<"l", "s">>, <<RuneE9>>}

SecondWords ==
    {<<"c", "h", "e", "c", "k", "o", "u", "t">>, <<"c", "o">>, <<"s", "w", "i", "t", "c", "h">>, <<"b", "r", "a", "n", "c", "h">>, <<"m", "e", "r", "g", "e">>, <<"a", "d", "d">>, <<"c", "o", "m", "m", "i", "t">>,
     <<"p", "u", "s", "h">>, <<"p", "u", "l", "l">>, <<"r", "e", "m", "o", "t", "e">>, <<"l", "o", "g">>, <<"s", "h", "o", "w">>, <<"d", "i", "f", "f">>, <<"s", "t", "a", "t", "u", "s">>, <<"s", "t">>,
     <<"f", "o">>, <<"F", "O">>, <<".", "/", "f", "o">>, <<"s", "r", "c", "/", "m">>, <<"z", "z", "/", "x">>, <<"~", "/", "f">>, <<".", "e">>}

RestWords == {<<"m", "a">>, <<"m", "a", "i", "n">>, <<"f", "o">>, <<"-">>}

\* the word typed after the third
LaterWords == {<<"m", "a">>}

WordsAt(i) ==
    IF i = 1 THEN FirstWords ELSE IF i = 2 THEN SecondWords
    ELSE IF i = 3 THEN RestWords ELSE LaterWords

DefaultConfig ==
    [CompletionEnabled |-> TRUE, CompletionCaseInsensitive |-> TRUE,
     CompletionShowHidden |-> FALSE, GitEnabled |-> TRUE, Aliases |-> DefaultAliases,
     Environment |-> <<>>, HistorySize |-> 10000, HistoryDuplicates |-> FALSE]

\* aliases named like an executable of PATH and like a built-in
ShadowingAliases ==
    [n \in {<<"l", "s">>, <<"c", "d">>, <<"g">>} |->
        IF n = <<"l", "s">> THEN <<"l", "s", " ", "-", "l">>
        ELSE IF n = <<"c", "d">> THEN <<"c", "d", " ", "-", "P">>
        ELSE <<"g", "i", "t">>]

\* the default configuration and the ones that differ from it in one setting
Configs ==
    {DefaultConfig,
     [DefaultConfig EXCEPT !.CompletionEnabled = FALSE],
     [DefaultConfig EXCEPT !.CompletionCaseInsensitive = FALSE],
     [DefaultConfig EXCEPT !.CompletionShowHidden = TRUE],
     [DefaultConfig EXCEPT !.GitEnabled = FALSE],
     [DefaultConfig EXCEPT !.Aliases = ShadowingAliases]}

EndsWord(ln) == ln # <<>> /\ ln[Len(ln)] \notin Separators

CompInit ==
    /\ line = <<>>
    /\ pos = 0
    /\ cfg \in Configs
    /\ comp = NoResult
    /\ tab = NoResult
    /\ cmdline = <<>>
    /\ osenv = <<>>
    /\ pres = NoResult
    /\ NoShell
    /\ NoHistory
    /\ NoDisplay

TypeWord(w) ==
    /\ pos = Len(line)
    /\ ~EndsWord(line)
    /\ Len(Fields(line)) < MaxWords
    /\ w \in WordsAt(Len(Fields(line)) + 1)
    /\ line' = line \o w
    /\ pos' = Len(line')
    /\ comp' = NoResult
    /\ tab' = NoResult
    /\ UNCHANGED <<cfg, parserVars, shellVars, histVars, dispVars>>

TypeSeparator(s) ==
    /\ pos = Len(line)
    /\ EndsWord(line)
    /\ line' = Append(line, s)
    /\ pos' = Len(line')
    /\ comp' = NoResult
    /\ tab' = NoResult
    /\ UNCHANGED <<cfg, parserVars, shellVars, histVars, dispVars>>

MoveLeft ==
    /\ pos > 0
    /\ Len(line) - pos < MaxBack
    /\ pos' = pos - 1
    /\ comp' = NoResult
    /\ tab' = NoResult
    /\ UNCHANGED <<line, cfg, parserVars, shellVars, histVars, dispVars>>

\* readline calls shellCompleter.Do(line, pos); Do calls Manager.Complete
PressTab ==
    /\ tab = NoResult
    /\ comp' = Complete(StringOfRunes(line), pos, cfg)
    /\ tab' = Do(line, pos, cfg)
    /\ UNCHANGED <<line, pos, cfg, parserVars, shellVars, histVars, dispVars>>

CompNext ==
    \/ \E w \in FirstWords \cup SecondWords \cup RestWords : TypeWord(w)
    \/ \E s \in Separators : TypeSeparator(s)
    \/ MoveLeft
    \/ PressTab

vars == <<line, pos, cfg, comp, tab, cmdline, osenv, pres,
         cwd, loop, nread, ctxDone, sigChan, listener, child, report,
         history, hcall, display, shown>>

Spec == CompInit /\ [][CompNext]_vars

--------------------------------------------------------------------------
(* internal/completion: what is shown for a list of completions *)

\* commonPrefix, had it stopped at the shorter length without comparing
commonPrefixUncompared(a, b) ==
    SubSeq(a, 1, IF Len(b) < Len(a) THEN Len(b) ELSE Len(a))

commonPrefix(a, b) ==
    LET minLen == IF Len(b) < Len(a) THEN Len(b) ELSE Len(a)
        differ == {i \in 1..minLen : a[i] # b[i]}
    IN  IF differ = {} THEN SubSeq(a, 1, minLen)
        ELSE SubSeq(a, 1, (CHOOSE i \in differ : \A j \in differ : i <= j) - 1)

\* the loop of GetCommonPrefix over completions[1:]
RECURSIVE ReducePrefix(_, _)
ReducePrefix(prefix, rest) ==
    IF rest = <<>> \/ prefix = <<>> THEN prefix
    ELSE ReducePrefix(commonPrefix(prefix, Head(rest)), Tail(rest))

GetCommonPrefix(completions) ==
    IF Len(completions) = 0 THEN <<>>
    ELSE IF Len(completions) = 1 THEN completions[1]
    ELSE ReducePrefix(commonPrefix(completions[1], completions[2]),
                      SubSeq(completions, 3, Len(completions)))

\* integer division of Go, which truncates toward zero
Quot(a, b) == IF a >= 0 THEN a \div b ELSE -((-a) \div b)

Spaces(n) == [i \in 1..n |-> " "]

\* fmt.Sprintf("%-*s", width, s): s followed by spaces up to width runes
PadRight(s, width) ==
    LET count == Len(RunesOfString(s))
    IN  IF count >= width THEN s ELSE s \o Spaces(width - count)

RECURSIVE MaxLen(_)
MaxLen(completions) ==
    IF completions = <<>> THEN 0
    ELSE LET rest == MaxLen(Tail(completions))
         IN  IF Len(Head(completions)) > rest THEN Len(Head(completions)) ELSE rest

FormatCompletions(completions, maxWidth) ==
    IF Len(completions) = 0 THEN <<>>
    ELSE IF Len(completions) = 1 THEN completions
    ELSE LET colWidth == MaxLen(completions) + 2
             cols == IF Quot(maxWidth, colWidth) < 1 THEN 1 ELSE Quot(maxWidth, colWidth)
             n == Len(completions)
             count == (n + cols - 1) \div cols
             last(r) == IF r * cols < n THEN r * cols ELSE n
         IN  [r \in 1..count |->
                 Flatten([k \in 1..(last(r) - (r - 1) * cols) |->
                             PadRight(completions[(r - 1) * cols + k], colWidth)])]

--------------------------------------------------------------------------
(* The display functions applied to lists of completions *)

MaxCompletions == 4

DisplayCandidates ==
    {<<"a", "b", "c", "d", "e">>, <<"f", "g", "h", "i", "j">>, <<"t", "e", "s", "t">>, <<"t", "e", "s", "t", "e", "r">>, <<"t", "e">>, <<"xC3", "xA9">>}

DisplayWidths == {0, 6, 14, 20}

RECURSIVE ListsUpTo(_, _)
ListsUpTo(S, n) ==
    IF n = 0 THEN {<<>>}
    ELSE ListsUpTo(S, n - 1) \cup
         {Append(l, x) : l \in {m \in ListsUpTo(S, n - 1) : Len(m) = n - 1}, x \in S}

DisplayInit ==
    /\ display \in [completions : ListsUpTo(DisplayCandidates, MaxCompletions),
                    maxWidth : DisplayWidths]
    /\ shown = NoResult
    /\ cfg = DefaultConfig
    /\ line = <<>>
    /\ pos = 0
    /\ comp = NoResult
    /\ tab = NoResult
    /\ cmdline = <<>>
    /\ osenv = <<>>
    /\ pres = NoResult
    /\ NoShell
    /\ NoHistory

CallGetCommonPrefix ==
    /\ shown' = [called |-> TRUE, op |-> "GetCommonPrefix",
                 prefix |-> GetCommonPrefix(display.completions), rows |-> <<>>]
    /\ UNCHANGED <<display, cfg, compVars, parserVars, shellVars, histVars>>

CallFormatCompletions ==
    /\ shown' = [called |-> TRUE, op |-> "FormatCompletions", prefix |-> <<>>,
                 rows |-> FormatCompletions(display.completions, display.maxWidth)]
    /\ UNCHANGED <<display, cfg, compVars, parserVars, shellVars, histVars>>

DisplayNext ==
    \/ CallGetCommonPrefix
    \/ CallFormatCompletions

SpecDisplay == DisplayInit /\ [][DisplayNext]_vars

--------------------------------------------------------------------------

(* What the user sees: the word being typed, in runes of the buffer *)

Whitespace == {" ", "\t"}

\* index of the nearest whitespace rune at or before position p, or 0
LastBlank(ln, p) ==
    IF \E k \in 1..p : ln[k] \in Whitespace
    THEN CHOOSE k \in 1..p : ln[k] \in Whitespace /\ \A j \in (k + 1)..p : ln[j] \notin Whitespace
    ELSE 0

TypedWord(ln, p) == SubSeq(ln, LastBlank(ln, p) + 1, p)

BeforeTypedWord(ln, p) == SubSeq(ln, 1, LastBlank(ln, p))

HasCandidates == tab # NoResult /\ tab.newLine # <<>>

\* C1: whenever Do yields at least one candidate, the length it reports is
\* the number of characters between the cursor and the nearest preceding
\* space or tab (or the start of the line).
C1_LengthIsTypedWord ==
    HasCandidates => tab.length = Len(TypedWord(line, pos))

\* every rune of the buffer is one byte, so that the cursor is a byte offset
OneByteLine == \A i \in 1..Len(line) : line[i] \notin {RuneE9, RuneError}

\* the line up to the cursor after candidate i replaced the reported length
\* characters before the cursor
Substituted(i) == SubSeq(line, 1, pos - tab.length) \o tab.newLine[i]

\* the line up to the cursor after candidate i was inserted at the cursor,
\* as readline does with the result of Do
Inserted(i) == SubSeq(line, 1, pos) \o tab.newLine[i]

\* the text before the typed word followed by exactly one full completion
OneFullCompletion(text) ==
    \E j \in 1..Len(comp.list) :
        text = BeforeTypedWord(line, pos) \o RunesOfString(comp.list[j])

\* C2: every candidate of Do, put in place of the reported length characters
\* before the cursor, gives the text before the typed word followed by
\* exactly one full completion.  Stated for lines of one-byte characters and
\* for either way of applying a result: all candidates substituted for the
\* length characters, or all candidates inserted at the cursor.
C2_NoDuplicatedPrefix ==
    (HasCandidates /\ OneByteLine) =>
        \/ \A i \in 1..Len(tab.newLine) : OneFullCompletion(Substituted(i))
        \/ \A i \in 1..Len(tab.newLine) : OneFullCompletion(Inserted(i))

\* C3: for every completion c of Manager.Complete, Do returns a candidate s
\* with (typed word) + s = c.  Stated for lines of one-byte characters.
C3_SuffixOnly ==
    (HasCandidates /\ OneByteLine) =>
        \A j \in 1..Len(comp.list) :
            \E i \in 1..Len(tab.newLine) :
                TypedWord(line, pos) \o tab.newLine[i] = RunesOfString(comp.list[j])

\* the number of whitespace-delimited tokens of s
TokenCount(s) ==
    Cardinality({i \in 1..Len(s) : s[i] \notin Whitespace /\ (i = 1 \/ s[i - 1] \in Whitespace)})

AfterBlank(s) == s # <<>> /\ s[Len(s)] \in Whitespace

BeforeCursor == SubSeq(StringOfRunes(line), 1, pos)

InCommandContext ==
    \/ TokenCount(BeforeCursor) = 0
    \/ TokenCount(BeforeCursor) = 1 /\ ~AfterBlank(BeforeCursor)

GitContexts ==
    {"git-subcommand", "git-branch", "git-add-file", "git-commit-option",
     "git-remote", "git-remote-subcommand", "git-ref", "git-file"}

Completed == comp # NoResult /\ cfg.CompletionEnabled

\* C4: Complete selects command completion exactly when the text before the
\* cursor has no token, or one token not followed by a space or a tab; in
\* every other case it selects git or file completion.
C4_CommandContext ==
    Completed =>
        /\ comp.ctx = "command" <=> InCommandContext
        /\ ~InCommandContext => comp.ctx \in GitContexts \cup {"file"}

\* the completer the second token asks for, per subcommand
ContextOfSubcommand(sub) ==
    CASE sub \in {<<"c", "h", "e", "c", "k", "o", "u", "t">>, <<"c", "o">>, <<"s", "w", "i", "t", "c", "h">>, <<"b", "r", "a", "n", "c", "h">>, <<"m", "e", "r", "g", "e">>} -> "git-branch"
      [] sub = <<"a", "d", "d">> -> "git-add-file"
      [] sub = <<"c", "o", "m", "m", "i", "t">> -> "git-commit-option"
      [] sub \in {<<"p", "u", "s", "h">>, <<"p", "u", "l", "l">>} -> "git-remote"
      [] sub = <<"r", "e", "m", "o", "t", "e">> -> "git-remote-subcommand"
      [] sub \in {<<"l", "o", "g">>, <<"s", "h", "o", "w">>, <<"d", "i", "f", "f">>} -> "git-ref"
      [] OTHER -> "git-file"

ExpectedGitContext ==
    LET toks == Fields(BeforeCursor)
    IN  IF Len(toks) = 1 \/ (Len(toks) = 2 /\ ~AfterBlank(BeforeCursor))
        THEN "git-subcommand"
        ELSE ContextOfSubcommand(toks[2])

\* C5: one completer is selected for every line and cursor, and when the
\* first token is git outside command-completion context the second token
\* decides it: subcommand names while the subcommand is absent or still being
\* typed, otherwise the completer of that subcommand (file completion on the
\* last token for a subcommand without a completer of its own).
C5_GitDispatch ==
    Completed =>
        /\ comp.ctx \in GitContexts \cup {"command", "file"}
        /\ LET toks == Fields(BeforeCursor)
           IN  (toks # <<>> /\ toks[1] = <<"g", "i", "t">> /\ comp.ctx # "command") =>
                   /\ comp.ctx = ExpectedGitContext
                   /\ comp.ctx = "git-file" => comp.prefix = toks[Len(toks)]

--------------------------------------------------------------------------
(* internal/parser: Parser.  Its strings hold ASCII only, so a byte and a  *)
(* rune of them coincide.                                                  *)

RECURSIVE TrimLeft(_)
TrimLeft(s) == IF s # <<>> /\ IsSpace(s[1]) THEN TrimLeft(Tail(s)) ELSE s

RECURSIVE TrimRight(_)
TrimRight(s) == IF s # <<>> /\ IsSpace(s[Len(s)]) THEN TrimRight(SubSeq(s, 1, Len(s) - 1)) ELSE s

\* strings.TrimSpace
TrimSpace(s) == TrimRight(TrimLeft(s))

NoQuote == "none"

\* tokenize with one of four slips: "escape-outside-quotes" takes a
\* backslash literally inside quotes, "no-unclosed-check" returns the tokens
\* of an input that ends inside quotes, "append-empty" appends the current
\* token at every separator, "keep-backslash" keeps the backslash before an
\* escaped character
RECURSIVE tokenizeSlip(_, _, _, _, _, _, _)
tokenizeSlip(input, i, tokens, current, quoteChar, escaped, slip) ==
    IF i > Len(input)
    THEN IF quoteChar # NoQuote /\ slip # "no-unclosed-check" THEN [err |-> TRUE, tokens |-> <<>>]
         ELSE [err |-> FALSE,
               tokens |-> IF Len(current) > 0 THEN Append(tokens, current) ELSE tokens]
    ELSE LET r == input[i]
         IN  IF escaped
                 THEN tokenizeSlip(input, i + 1, tokens,
                                   IF slip = "keep-backslash" THEN current \o <<"\\", r>>
                                   ELSE Append(current, r),
                                   quoteChar, FALSE, slip)
             ELSE IF r = "\\" /\ (slip # "escape-outside-quotes" \/ quoteChar = NoQuote)
                 THEN tokenizeSlip(input, i + 1, tokens, current, quoteChar, TRUE, slip)
             ELSE IF quoteChar = NoQuote /\ (r = "\"" \/ r = "'")
                 THEN tokenizeSlip(input, i + 1, tokens, current, r, FALSE, slip)
             ELSE IF quoteChar # NoQuote /\ r = quoteChar
                 THEN tokenizeSlip(input, i + 1, tokens, current, NoQuote, FALSE, slip)
             ELSE IF quoteChar = NoQuote /\ (r = " " \/ r = "\t")
                 THEN IF Len(current) > 0 \/ slip = "append-empty"
                      THEN tokenizeSlip(input, i + 1, Append(tokens, current), <<>>, quoteChar, FALSE, slip)
                      ELSE tokenizeSlip(input, i + 1, tokens, current, quoteChar, FALSE, slip)
             ELSE tokenizeSlip(input, i + 1, tokens, Append(current, r), quoteChar, FALSE, slip)

tokenizeFromEscapeOutsideQuotes(input, i, tokens, current, quoteChar, escaped) ==
    tokenizeSlip(input, i, tokens, current, quoteChar, escaped, "escape-outside-quotes")

tokenizeFromNoUnclosedCheck(input, i, tokens, current, quoteChar, escaped) ==
    tokenizeSlip(input, i, tokens, current, quoteChar, escaped, "no-unclosed-check")

tokenizeFromAppendEmpty(input, i, tokens, current, quoteChar, escaped) ==
    tokenizeSlip(input, i, tokens, current, quoteChar, escaped, "append-empty")

tokenizeFromKeepBackslash(input, i, tokens, current, quoteChar, escaped) ==
    tokenizeSlip(input, i, tokens, current, quoteChar, escaped, "keep-backslash")

\* the loop of tokenize from rune i on, with the loop's local variables
RECURSIVE tokenizeFrom(_, _, _, _, _, _)
tokenizeFrom(input, i, tokens, current, quoteChar, escaped) ==
    IF i > Len(input)
    THEN IF quoteChar # NoQuote THEN [err |-> TRUE, tokens |-> <<>>]
         ELSE [err |-> FALSE,
               tokens |-> IF Len(current) > 0 THEN Append(tokens, current) ELSE tokens]
    ELSE LET r == input[i]
         IN  IF escaped
                 THEN tokenizeFrom(input, i + 1, tokens, Append(current, r), quoteChar, FALSE)
             ELSE IF r = "\\"
                 THEN tokenizeFrom(input, i + 1, tokens, current, quoteChar, TRUE)
             ELSE IF quoteChar = NoQuote /\ (r = "\"" \/ r = "'")
                 THEN tokenizeFrom(input, i + 1, tokens, current, r, FALSE)
             ELSE IF quoteChar # NoQuote /\ r = quoteChar
                 THEN tokenizeFrom(input, i + 1, tokens, current, NoQuote, FALSE)
             ELSE IF quoteChar = NoQuote /\ (r = " " \/ r = "\t")
                 THEN IF Len(current) > 0
                      THEN tokenizeFrom(input, i + 1, Append(tokens, current), <<>>, quoteChar, FALSE)
                      ELSE tokenizeFrom(input, i + 1, tokens, current, quoteChar, FALSE)
             ELSE tokenizeFrom(input, i + 1, tokens, Append(current, r), quoteChar, FALSE)

tokenize(input) == tokenizeFrom(input, 1, <<>>, <<>>, NoQuote, FALSE)

\* expandAlias that scans its own replacement once more
expandAliasTwice(input, c) ==
    LET tokens == Fields(input)
        once == JoinStrings([tokens EXCEPT ![1] = c.Aliases[tokens[1]]], <<" ">>)
        again == Fields(once)
    IN  IF Len(tokens) = 0 THEN [text |-> input, ok |-> FALSE]
        ELSE IF tokens[1] \notin DOMAIN c.Aliases THEN [text |-> input, ok |-> FALSE]
        ELSE IF Len(again) > 0 /\ again[1] \in DOMAIN c.Aliases
             THEN [text |-> JoinStrings([again EXCEPT ![1] = c.Aliases[again[1]]], <<" ">>),
                   ok |-> TRUE]
             ELSE [text |-> once, ok |-> TRUE]

expandAlias(input, c) ==
    LET tokens == Fields(input)
    IN  IF Len(tokens) = 0 THEN [text |-> input, ok |-> FALSE]
        ELSE IF tokens[1] \in DOMAIN c.Aliases
             THEN [text |-> JoinStrings([tokens EXCEPT ![1] = c.Aliases[tokens[1]]], <<" ">>),
                   ok |-> TRUE]
             ELSE [text |-> input, ok |-> FALSE]

\* os.Getenv
Getenv(name, env) == IF name \in DOMAIN env THEN env[name] ELSE <<>>

\* getVariable, had it looked at the process environment only
getVariableProcessOnly(name, c, env) == Getenv(name, env)

getVariable(name, c, env) ==
    IF name \in DOMAIN c.Environment THEN c.Environment[name] ELSE Getenv(name, env)

Letters ==
    {"a", "b", "c", "d", "e", "f", "g", "h", "i", "j", "k", "l", "m", "n", "o", "p", "q",
     "r", "s", "t", "u", "v", "w", "x", "y", "z",
     "A", "B", "C", "D", "E", "F", "G", "H", "I", "J", "K", "L", "M", "N", "O", "P", "Q",
     "R", "S", "T", "U", "V", "W", "X", "Y", "Z"}

Digits == {"0", "1", "2", "3", "4", "5", "6", "7", "8", "9"}

isAlphaNumeric(ch) == ch \in Letters \cup Digits

\* strings.Index(s, sep) for a one-byte separator, 0-based, -1 when absent
Index(s, sep) ==
    IF Contains(s, sep)
    THEN (CHOOSE i \in 1..Len(s) : s[i] = sep /\ \A j \in 1..(i - 1) : s[j] # sep) - 1
    ELSE -1

\* the inner loop of expandVariables that finds the end of a $VAR name
RECURSIVE NameEnd(_, _)
NameEnd(result, end) ==
    IF end < Len(result) /\ (isAlphaNumeric(result[end + 1]) \/ result[end + 1] = "_")
    THEN NameEnd(result, end + 1)
    ELSE end

\* the loop of expandVariables, had it gone on scanning at the place of the
\* inserted value instead of after it
RECURSIVE expandVariablesFromRescan(_, _, _, _)
expandVariablesFromRescan(result, i, c, env) ==
    IF ~(i < Len(result)) THEN result
    ELSE IF result[i + 1] = "$" /\ i + 1 < Len(result)
    THEN IF result[i + 2] = "{"
         THEN LET end == Index(SubSeq(result, i + 3, Len(result)), "}")
                  varValue == getVariable(SubSeq(result, i + 3, i + 2 + end), c, env)
              IN  IF end # -1
                  THEN expandVariablesFromRescan(
                           SubSeq(result, 1, i) \o varValue \o SubSeq(result, i + 4 + end, Len(result)),
                           i, c, env)
                  ELSE expandVariablesFromRescan(result, i + 1, c, env)
         ELSE LET start == i + 1
                  end == NameEnd(result, start)
                  varValue == getVariable(SubSeq(result, start + 1, end), c, env)
              IN  IF end > start
                  THEN expandVariablesFromRescan(
                           SubSeq(result, 1, i) \o varValue \o SubSeq(result, end + 1, Len(result)),
                           i, c, env)
                  ELSE expandVariablesFromRescan(result, i + 1, c, env)
    ELSE expandVariablesFromRescan(result, i + 1, c, env)

\* the loop of expandVariables from index i (0-based) on
RECURSIVE expandVariablesFrom(_, _, _, _)
expandVariablesFrom(result, i, c, env) ==
    IF ~(i < Len(result)) THEN result
    ELSE IF result[i + 1] = "$" /\ i + 1 < Len(result)
    THEN IF result[i + 2] = "{"
         THEN LET end == Index(SubSeq(result, i + 3, Len(result)), "}")
                  varValue == getVariable(SubSeq(result, i + 3, i + 2 + end), c, env)
              IN  IF end # -1
                  THEN expandVariablesFrom(
                           SubSeq(result, 1, i) \o varValue \o SubSeq(result, i + 4 + end, Len(result)),
                           i + Len(varValue) - 1 + 1, c, env)
                  ELSE expandVariablesFrom(result, i + 1, c, env)
         ELSE LET start == i + 1
                  end == NameEnd(result, start)
                  varValue == getVariable(SubSeq(result, start + 1, end), c, env)
              IN  IF end > start
                  THEN expandVariablesFrom(
                           SubSeq(result, 1, i) \o varValue \o SubSeq(result, end + 1, Len(result)),
                           i + Len(varValue) - 1 + 1, c, env)
                  ELSE expandVariablesFrom(result, i + 1, c, env)
    ELSE expandVariablesFrom(result, i + 1, c, env)

expandVariables(token, c, env) == expandVariablesFrom(token, 0, c, env)

Nil == [kind |-> "nil"]

\* parseBuiltin that matches the command name without regard to case
parseBuiltinFoldCase(tokens, c) ==
    LET cmd == ToLower(tokens[1])
        args == Tail(tokens)
    IN  CASE cmd = <<"c", "d">> -> [kind |-> "Cd", args |-> args]
          [] cmd = <<"p", "w", "d">> -> [kind |-> "Pwd"]
          [] cmd = <<"e", "x", "i", "t">> -> [kind |-> "Exit", args |-> args]
          [] cmd = <<"h", "e", "l", "p">> -> [kind |-> "Help", args |-> args]
          [] cmd = <<"h", "i", "s", "t", "o", "r", "y">> -> [kind |-> "History", args |-> args]
          [] cmd = <<"a", "l", "i", "a", "s">> -> [kind |-> "Alias", args |-> args]
          [] cmd = <<"e", "x", "p", "o", "r", "t">> -> [kind |-> "Export", args |-> args]
          [] OTHER -> [kind |-> "nil"]

parseBuiltin(tokens, c) ==
    LET cmd == tokens[1]
        args == Tail(tokens)
    IN  CASE cmd = <<"c", "d">> -> [kind |-> "Cd", args |-> args]
          [] cmd = <<"p", "w", "d">> -> [kind |-> "Pwd"]
          [] cmd = <<"e", "x", "i", "t">> -> [kind |-> "Exit", args |-> args]
          [] cmd = <<"h", "e", "l", "p">> -> [kind |-> "Help", args |-> args]
          [] cmd = <<"h", "i", "s", "t", "o", "r", "y">> -> [kind |-> "History", args |-> args]
          [] cmd = <<"a", "l", "i", "a", "s">> -> [kind |-> "Alias", args |-> args]
          [] cmd = <<"e", "x", "p", "o", "r", "t">> -> [kind |-> "Export", args |-> args]
          [] OTHER -> Nil

parseExternal(tokens, c, env) ==
    LET expandedTokens == [i \in 1..Len(tokens) |-> expandVariables(tokens[i], c, env)]
    IN  [kind |-> "External", name |-> expandedTokens[1], args |-> Tail(expandedTokens)]

\* Parser.Parse: the command and the error it returns, with the text it
\* tokenized and the tokens it got
Parse(in, c, env) ==
    LET trimmed == TrimSpace(in)
        ea == expandAlias(trimmed, c)
        text == IF ea.ok THEN ea.text ELSE trimmed
        tk == tokenize(text)
    IN  IF trimmed = <<>>
            THEN [err |-> FALSE, cmd |-> [kind |-> "NoOp"], text |-> trimmed, tokens |-> <<>>, tokErr |-> FALSE]
        ELSE IF tk.err
            THEN [err |-> TRUE, cmd |-> Nil, text |-> text, tokens |-> tk.tokens, tokErr |-> TRUE]
        ELSE IF Len(tk.tokens) = 0
            THEN [err |-> FALSE, cmd |-> [kind |-> "NoOp"], text |-> text, tokens |-> tk.tokens, tokErr |-> FALSE]
        ELSE IF parseBuiltin(tk.tokens, c) # Nil
            THEN [err |-> FALSE, cmd |-> parseBuiltin(tk.tokens, c), text |-> text, tokens |-> tk.tokens, tokErr |-> FALSE]
        ELSE [err |-> FALSE, cmd |-> parseExternal(tk.tokens, c, env), text |-> text, tokens |-> tk.tokens, tokErr |-> FALSE]

--------------------------------------------------------------------------
(* The parser under test: a line is given, and tokenize, expandAlias or    *)
(* Parse is applied to it.                                                 *)

MaxInputLen == 5
MaxArgs == 2

TokenizerAlphabet == {"a", " ", "\t", "\"", "'", "\\"}

TokenizerInputs == UNION {[1..k -> TokenizerAlphabet] : k \in 0..MaxInputLen}

\* the characters of the tokens given to expandVariables
VariableAlphabet == {"$", "{", "}", "X", "Y", "_", "-"}

VariableTokens == UNION {[1..k -> VariableAlphabet] : k \in 0..MaxInputLen}

CommandWords ==
    {<<"c", "d">>, <<"p", "w", "d">>, <<"e", "x", "i", "t">>, <<"h", "e", "l", "p">>, <<"h", "i", "s", "t", "o", "r", "y">>, <<"a", "l", "i", "a", "s">>, <<"e", "x", "p", "o", "r", "t">>,
     <<"C", "d">>, <<"l", "s">>, <<"l", "l">>, <<"x">>, <<"y">>, <<"$", "X">>, <<"a">>}

ArgWords ==
    {<<"a">>, <<"$", "X">>, <<"$", "{", "Y", "}", "b">>, <<"$", "Z">>, <<"\"", "a", " ", "b", "\"">>,
     <<"\"", "$", "X", "\"">>, <<"'", "$", "X", "'">>, <<"\\", "$", "X">>}

CommandInputs ==
    {cmd \o Flatten([i \in 1..Len(as) |-> <<" ">> \o as[i]]) :
        cmd \in CommandWords, as \in UNION {[1..k -> ArgWords] : k \in 0..MaxArgs}}

CustomAliases ==
    [n \in {<<"x">>, <<"y">>, <<"l", "s">>, <<"a">>} |->
        CASE n = <<"x">> -> <<"y">>
          [] n = <<"y">> -> <<"c", "d">>
          [] n = <<"l", "s">> -> <<"l", "s", " ", "-", "l">>
          [] n = <<"a">> -> <<"a", " ", " ", "-", "l">>]

ParserConfigs ==
    {DefaultConfig,
     [DefaultConfig EXCEPT !.Aliases = CustomAliases,
                           !.Environment = [n \in {<<"X">>} |-> <<"1">>]]}

ProcessEnv == [n \in {<<"X">>, <<"Y">>} |-> IF n = <<"X">> THEN <<"0">> ELSE <<"$", "X">>]

ParserInit ==
    /\ cmdline \in TokenizerInputs \cup CommandInputs \cup VariableTokens
    /\ cfg \in ParserConfigs
    /\ osenv = ProcessEnv
    /\ pres = NoResult
    /\ line = <<>>
    /\ pos = 0
    /\ comp = NoResult
    /\ tab = NoResult
    /\ NoShell
    /\ NoHistory
    /\ NoDisplay

CallTokenize ==
    /\ pres = NoResult
    /\ pres' = [op |-> "tokenize", err |-> tokenize(cmdline).err, tokens |-> tokenize(cmdline).tokens]
    /\ UNCHANGED <<cmdline, osenv, cfg, compVars, shellVars, histVars, dispVars>>

CallExpandAlias ==
    /\ pres = NoResult
    /\ pres' = [op |-> "expandAlias", text |-> expandAlias(cmdline, cfg).text,
                ok |-> expandAlias(cmdline, cfg).ok]
    /\ UNCHANGED <<cmdline, osenv, cfg, compVars, shellVars, histVars, dispVars>>

CallParse ==
    /\ pres = NoResult
    /\ pres' = [Parse(cmdline, cfg, osenv) EXCEPT !.err = @] @@ [op |-> "Parse"]
    /\ UNCHANGED <<cmdline, osenv, cfg, compVars, shellVars, histVars, dispVars>>

CallExpandVariables ==
    /\ pres = NoResult
    /\ cmdline \in VariableTokens
    /\ pres' = [op |-> "expandVariables", text |-> expandVariables(cmdline, cfg, osenv)]
    /\ UNCHANGED <<cmdline, osenv, cfg, compVars, shellVars, histVars, dispVars>>

ParserNext == CallTokenize \/ CallExpandAlias \/ CallParse \/ CallExpandVariables

SpecParser == ParserInit /\ [][ParserNext]_vars

--------------------------------------------------------------------------
(* The tokenizer's rules, stated per character: the role each character of *)
(* the input plays, and the tokens the roles give.                         *)

Quotes == {"\"", "'"}

\* the open quote (or NoQuote) and the pending escape after k characters of s
RECURSIVE ScanAfter(_, _)
ScanAfter(s, k) ==
    IF k = 0 THEN [q |-> NoQuote, esc |-> FALSE]
    ELSE LET st == ScanAfter(s, k - 1)
             ch == s[k]
         IN  IF st.esc THEN [q |-> st.q, esc |-> FALSE]
             ELSE IF ch = "\\" THEN [q |-> st.q, esc |-> TRUE]
             ELSE IF st.q = NoQuote /\ ch \in Quotes THEN [q |-> ch, esc |-> FALSE]
             ELSE IF st.q = ch THEN [q |-> NoQuote, esc |-> FALSE]
             ELSE st

Role(s, k) ==
    LET st == ScanAfter(s, k - 1)
        ch == s[k]
    IN  IF st.esc THEN "literal"
        ELSE IF ch = "\\" THEN "escape"
        ELSE IF st.q = NoQuote /\ ch \in Quotes THEN "open"
        ELSE IF st.q = ch THEN "close"
        ELSE IF st.q = NoQuote /\ ch \in Whitespace THEN "separator"
        ELSE "literal"

EndsInsideQuote(s) == ScanAfter(s, Len(s)).q # NoQuote

\* the literal characters of s between positions from and to
LiteralsBetween(s, from, to) ==
    LET idx == SelectSeq([i \in 1..(to - from + 1) |-> from + i - 1],
                         LAMBDA i : Role(s, i) = "literal")
    IN  [j \in 1..Len(idx) |-> s[idx[j]]]

\* the first separator position after position from, or Len(s) + 1
SegmentEnd(s, from) ==
    IF \E j \in from..Len(s) : Role(s, j) = "separator"
    THEN CHOOSE j \in from..Len(s) :
             Role(s, j) = "separator" /\ \A k \in from..(j - 1) : Role(s, k) # "separator"
    ELSE Len(s) + 1

\* the tokens of s from position from on: the literal characters of each
\* stretch between separators, a stretch without literal characters giving
\* no token
RECURSIVE TokensByRole(_, _)
TokensByRole(s, from) ==
    IF from > Len(s) THEN <<>>
    ELSE LET e == SegmentEnd(s, from)
             tok == LiteralsBetween(s, from, e - 1)
         IN  (IF tok = <<>> THEN <<>> ELSE <<tok>>) \o TokensByRole(s, e + 1)

Tokenized == pres # NoResult /\ pres.op = "tokenize"
Parsed == pres # NoResult /\ pres.op = "Parse"
AliasExpanded == pres # NoResult /\ pres.op = "expandAlias"

\* C6: for an input that does not end inside a quoted region, tokenize
\* returns the tokens of the rules: an escaped character is literal in every
\* state, quotes delimit regions and are dropped, whitespace inside a region
\* does not split.
C6_TokenizeRules ==
    (Tokenized /\ ~EndsInsideQuote(cmdline)) =>
        /\ ~pres.err
        /\ pres.tokens = TokensByRole(cmdline, 1)

\* an escaped quote inside a quoted region: "\"" gives the one token "
C6_Witness ==
    /\ Tokenized
    /\ cmdline = <<"\"", "\\", "\"", "\"">>
    /\ pres.tokens = <<<<"\"">>>>

\* C7: tokenize fails exactly when the input ends inside a quoted region and
\* then returns no tokens; Parse returns that error and no command.
C7_UnclosedQuote ==
    /\ Tokenized =>
        /\ pres.err <=> EndsInsideQuote(cmdline)
        /\ pres.err => pres.tokens = <<>>
    /\ Parsed =>
        /\ pres.err <=> EndsInsideQuote(pres.text)
        /\ pres.err => pres.cmd = Nil

C7_Witness ==
    /\ Parsed
    /\ cmdline = <<"a", " ", "\"", "a">>
    /\ pres.err
    /\ pres.cmd = Nil

\* C8: tokenize never returns an empty token, and an empty or
\* whitespace-only input gives no tokens and no error.
C8_NoEmptyToken ==
    Tokenized =>
        /\ \A i \in 1..Len(pres.tokens) : pres.tokens[i] # <<>>
        /\ (\A i \in 1..Len(cmdline) : cmdline[i] \in Whitespace) =>
               (pres.tokens = <<>> /\ ~pres.err)

\* leading, doubled and trailing separators around two words
C8_Witness ==
    /\ Tokenized
    /\ cmdline = <<" ", "a", " ", "\t", "a">>
    /\ pres.tokens = <<<<"a">>, <<"a">>>>

--------------------------------------------------------------------------
(* Alias expansion and command dispatch *)

\* the text the alias expander must produce for fields whose first one is
\* an alias key: the expansion, then each further field after one space
RECURSIVE SpacedFields(_)
SpacedFields(fs) == IF fs = <<>> THEN <<>> ELSE <<" ">> \o Head(fs) \o SpacedFields(Tail(fs))

FirstFieldIsAlias(s) == Fields(s) # <<>> /\ Fields(s)[1] \in DOMAIN cfg.Aliases

\* the first word of the expansion of the alias named by the first field
ExpansionHead(s) == Fields(cfg.Aliases[Fields(s)[1]])[1]

\* C9: expandAlias replaces the first field by its expansion once and joins
\* the fields with single spaces, reporting true; a line whose first field
\* is no alias key, and the empty line, come back unchanged with false.  The
\* replacement is not scanned again: Parse of a line whose alias expands to
\* an alias name (another one or its own) yields the command of that name.
C9_AliasOnce ==
    /\ AliasExpanded =>
        IF FirstFieldIsAlias(cmdline)
        THEN /\ pres.ok
             /\ pres.text = cfg.Aliases[Fields(cmdline)[1]] \o SpacedFields(Tail(Fields(cmdline)))
        ELSE /\ ~pres.ok
             /\ pres.text = cmdline
    /\ (Parsed /\ FirstFieldIsAlias(cmdline) /\ ~pres.err
            /\ ExpansionHead(cmdline) \in DOMAIN cfg.Aliases) =>
        /\ pres.cmd.kind = "External"
        /\ pres.cmd.name = ExpansionHead(cmdline)

\* alias x="y" where y is an alias too, and alias ls="ls -l"
C9_Witness ==
    /\ Parsed
    /\ cfg.Aliases = CustomAliases
    /\ \/ cmdline = <<"x", " ", "$", "X">> /\ pres.cmd = [kind |-> "External", name |-> <<"y">>, args |-> <<<<"1">>>>]
       \/ cmdline = <<"l", "s", " ", "a">> /\ pres.cmd = [kind |-> "External", name |-> <<"l", "s">>, args |-> <<<<"-", "l">>, <<"a">>>>]

BuiltinKind(name) ==
    CASE name = <<"c", "d">> -> "Cd"
      [] name = <<"p", "w", "d">> -> "Pwd"
      [] name = <<"e", "x", "i", "t">> -> "Exit"
      [] name = <<"h", "e", "l", "p">> -> "Help"
      [] name = <<"h", "i", "s", "t", "o", "r", "y">> -> "History"
      [] name = <<"a", "l", "i", "a", "s">> -> "Alias"
      [] name = <<"e", "x", "p", "o", "r", "t">> -> "Export"
      [] OTHER -> "none"

\* the value an external command's token takes when it is one variable
VariableValue(name) ==
    IF name \in DOMAIN cfg.Environment THEN cfg.Environment[name]
    ELSE IF name \in DOMAIN osenv THEN osenv[name]
    ELSE <<>>

IsBlank(s) == \A i \in 1..Len(s) : IsSpace(s[i])

\* C10: Parse gives NoOp for a blank line.  Otherwise, with the tokens of the
\* alias-expanded line, it gives a built-in exactly when the first token is
\* one of the seven built-in names, with the remaining tokens unexpanded
\* (PwdCommand carries no arguments), and for every other first token the
\* external command of the variable-expanded tokens.
C10_Dispatch ==
    Parsed =>
        /\ IsBlank(cmdline) => (pres.cmd = [kind |-> "NoOp"] /\ ~pres.err)
        /\ (~pres.err /\ pres.tokens # <<>>) =>
            IF BuiltinKind(pres.tokens[1]) # "none"
            THEN /\ pres.cmd.kind = BuiltinKind(pres.tokens[1])
                 /\ pres.cmd.kind # "Pwd" => pres.cmd.args = Tail(pres.tokens)
            ELSE /\ pres.cmd.kind = "External"
                 /\ Len(pres.cmd.args) = Len(pres.tokens) - 1
                 /\ \A i \in 1..Len(pres.tokens) :
                        LET out == IF i = 1 THEN pres.cmd.name ELSE pres.cmd.args[i - 1]
                        IN  /\ out = expandVariables(pres.tokens[i], cfg, osenv)
                            /\ pres.tokens[i] = <<"$", "X">> => out = VariableValue(<<"X">>)
                            /\ ~Contains(pres.tokens[i], "$") => out = pres.tokens[i]

\* a built-in keeps $X in its argument, an external command replaces it
C10_Witness ==
    /\ Parsed
    /\ cfg.Environment # <<>>
    /\ \/ cmdline = <<"c", "d", " ", "$", "X">> /\ pres.cmd = [kind |-> "Cd", args |-> <<<<"$", "X">>>>]
       \/ cmdline = <<"C", "d", " ", "$", "X">> /\ pres.cmd = [kind |-> "External", name |-> <<"C", "d">>, args |-> <<<<"1">>>>]

--------------------------------------------------------------------------
(* Variable expansion, stated as a left-to-right scan that consumes the    *)
(* token and emits the result.                                             *)

NameChars == Letters \cup Digits \cup {"_"}

\* the length of the maximal run of name characters at the start of s
RECURSIVE NameRun(_)
NameRun(s) ==
    IF s # <<>> /\ Head(s) \in NameChars THEN 1 + NameRun(Tail(s)) ELSE 0

\* the value of a name: the overlay first, then the process environment,
\* then the empty string
ValueOf(name) ==
    IF name \in DOMAIN cfg.Environment THEN cfg.Environment[name]
    ELSE IF name \in DOMAIN osenv THEN osenv[name]
    ELSE <<>>

\* what is emitted for s: each $name and ${name} gives its value, and the
\* scan goes on after the reference; every other character is copied
RECURSIVE Scanned(_)
Scanned(s) ==
    IF s = <<>> THEN <<>>
    ELSE IF Head(s) = "$" /\ Len(s) >= 2 /\ s[2] = "{" /\ \E k \in 3..Len(s) : s[k] = "}"
    THEN LET close == CHOOSE k \in 3..Len(s) : s[k] = "}" /\ \A j \in 3..(k - 1) : s[j] # "}"
         IN  ValueOf(SubSeq(s, 3, close - 1)) \o Scanned(SubSeq(s, close + 1, Len(s)))
    ELSE IF Head(s) = "$" /\ NameRun(Tail(s)) > 0
    THEN LET n == NameRun(Tail(s))
         IN  ValueOf(SubSeq(s, 2, n + 1)) \o Scanned(SubSeq(s, n + 2, Len(s)))
    ELSE <<Head(s)>> \o Scanned(Tail(s))

\* s holds no $ that is followed by a name character or by {
NoReference(s) ==
    \A i \in 1..Len(s) :
        s[i] = "$" => (i = Len(s) \/ s[i + 1] \notin NameChars \cup {"{"})

VariablesExpanded == pres # NoResult /\ pres.op = "expandVariables"

\* C12: expandVariables replaces each $name and ${name} from left to right by
\* its value and resumes after the inserted value, so that a value holding a
\* $ is not expanded again; a $ followed by neither a name character nor {
\* is left unchanged.
C12_ExpandOnce ==
    VariablesExpanded =>
        /\ pres.text = Scanned(cmdline)
        /\ NoReference(cmdline) => pres.text = cmdline

\* $Y was replaced by its value $X, which was not expanded again
C12_Witness ==
    /\ VariablesExpanded
    /\ cmdline = <<"$", "Y", "$">>
    /\ pres.text = <<"$", "X", "$">>

--------------------------------------------------------------------------
(* internal/parser: the Execute methods of the built-in commands.  Each    *)
(* gives the error it returns (NoError when nil) and the state it leaves.  *)

\* an error is the sequence of the messages wrapped in it; nil is empty
NoError == <<>>

KeyValueParts == 2

\* strings.SplitN(arg, "=", KeyValueParts): the parts around the first "="
SplitN(arg) ==
    IF Contains(arg, "=")
    THEN LET k == Index(arg, "=") + 1
         IN  <<SubSeq(arg, 1, k - 1), SubSeq(arg, k + 1, Len(arg))>>
    ELSE <<arg>>

RECURSIVE TrimLeftCutset(_, _)
TrimLeftCutset(s, cutset) ==
    IF s # <<>> /\ s[1] \in cutset THEN TrimLeftCutset(Tail(s), cutset) ELSE s

RECURSIVE TrimRightCutset(_, _)
TrimRightCutset(s, cutset) ==
    IF s # <<>> /\ s[Len(s)] \in cutset
    THEN TrimRightCutset(SubSeq(s, 1, Len(s) - 1), cutset)
    ELSE s

\* strings.Trim(s, cutset): every leading and trailing byte of cutset removed
Trim(s, cutset) == TrimRightCutset(TrimLeftCutset(s, cutset), cutset)

\* the name and the value of a definition name=value
DefinitionName(parts) == TrimSpace(parts[1])
DefinitionValue(parts) == Trim(TrimSpace(parts[2]), {"\"", "'"})

\* m[name] = value on a Go map
MapSet(m, name, value) ==
    [n \in DOMAIN m \cup {name} |-> IF n = name THEN value ELSE m[n]]

\* AliasCommand.Execute, had it taken an argument without "=" as a name
\* with an empty value
AliasExecuteNoFormatCheck(args, c) ==
    IF Len(args) = 0 THEN [err |-> NoError, cfg |-> c]
    ELSE LET parts == SplitN(JoinStrings(args, <<" ">>))
         IN  [err |-> NoError,
              cfg |-> [c EXCEPT !.Aliases =
                          MapSet(@, DefinitionName(parts),
                                 IF Len(parts) = KeyValueParts THEN DefinitionValue(parts)
                                 ELSE <<>>)]]

AliasExecute(args, c) ==
    IF Len(args) = 0 THEN [err |-> NoError, cfg |-> c]
    ELSE LET parts == SplitN(JoinStrings(args, <<" ">>))
         IN  IF Len(parts) # KeyValueParts
             THEN [err |-> <<"alias: invalid format">>, cfg |-> c]
             ELSE [err |-> NoError,
                   cfg |-> [c EXCEPT !.Aliases =
                               MapSet(@, DefinitionName(parts), DefinitionValue(parts))]]

\* os.Setenv: EINVAL for an empty name and for a name holding "="
Setenv(name, value, env) ==
    IF name = <<>> \/ Contains(name, "=")
    THEN [ok |-> FALSE, env |-> env]
    ELSE [ok |-> TRUE, env |-> MapSet(env, name, value)]

\* ExportCommand.Execute; checked tells whether the result of os.Setenv is
\* looked at (parser_test.go:934-936) or dropped (part_000:428)
ExportExecute(args, c, env, checked) ==
    IF Len(args) = 0 THEN [err |-> NoError, cfg |-> c, env |-> env]
    ELSE LET parts == SplitN(JoinStrings(args, <<" ">>))
         IN  IF Len(parts) # KeyValueParts
             THEN [err |-> <<"export: invalid format">>, cfg |-> c, env |-> env]
             ELSE LET name == DefinitionName(parts)
                      value == DefinitionValue(parts)
                      set == Setenv(name, value, env)
                  IN  [err |-> IF ~set.ok /\ checked
                               THEN <<"failed to set environment variable", "invalid argument">>
                               ELSE NoError,
                       cfg |-> [c EXCEPT !.Environment = MapSet(@, name, value)],
                       env |-> set.env]

\* os.UserHomeDir: $HOME of the process, an error when it is empty
UserHomeDir(env) ==
    [ok |-> Getenv(<<"H", "O", "M", "E">>, env) # <<>>, dir |-> Getenv(<<"H", "O", "M", "E">>, env)]

\* the directories of the file system, as absolute paths
Directories ==
    {<<"/">>, <<"/", "w">>, <<"/", "w", "/", "s", "r", "c">>, HomeDir, <<"/", "b", "i", "n">>, <<"/", "b", "i", "n", "/", "l", "i", "b">>, <<"/", "u", "s", "r">>, <<"/", "u", "s", "r", "/", "b", "i", "n">>}

\* the absolute path that dir names in the working directory wd
Absolute(dir, wd) ==
    IF HasPrefix(dir, <<"/">>) THEN Clean(dir) ELSE Clean(wd \o <<"/">> \o dir)

\* os.Chdir
Chdir(dir, wd) ==
    IF dir # <<>> /\ Absolute(dir, wd) \in Directories
    THEN [ok |-> TRUE, wd |-> Absolute(dir, wd)]
    ELSE [ok |-> FALSE, wd |-> wd]

\* CdCommand.Execute, had it also taken a bare ~ for the home directory
CdExecuteBareTilde(args, wd, env) ==
    LET home == UserHomeDir(env)
        dir == IF Len(args) = 0 \/ args[1] = <<"~">> THEN home.dir ELSE args[1]
        target == IF HasPrefix(dir, <<"~", "/">>) THEN Join(home.dir, SubSeq(dir, 3, Len(dir)))
                  ELSE dir
    IN  IF ~home.ok
        THEN [err |-> <<"failed to get home directory", "$HOME is not defined">>,
              wd |-> wd, dir |-> dir]
        ELSE [err |-> IF Chdir(target, wd).ok THEN NoError
                      ELSE <<"cd", "chdir", "no such file or directory">>,
              wd |-> Chdir(target, wd).wd,
              dir |-> target]

CdExecute(args, wd, env) ==
    LET home == UserHomeDir(env)
    IN  IF Len(args) = 0 /\ ~home.ok
        THEN [err |-> <<"failed to get home directory", "$HOME is not defined">>, wd |-> wd, dir |-> <<>>]
        ELSE LET dir == IF Len(args) = 0 THEN home.dir ELSE args[1]
                 tilde == HasPrefix(dir, <<"~", "/">>)
             IN  IF tilde /\ ~home.ok
                 THEN [err |-> <<"failed to get home directory", "$HOME is not defined">>, wd |-> wd, dir |-> dir]
                 ELSE LET target == IF tilde THEN Join(home.dir, SubSeq(dir, 3, Len(dir)))
                                    ELSE dir
                      IN  [err |-> IF Chdir(target, wd).ok THEN NoError ELSE <<"cd", "chdir", "no such file or directory">>,
                           wd |-> Chdir(target, wd).wd,
                           dir |-> target]

\* os.ReadDir of an absolute path
ReadDirAt(dir) ==
    IF dir = <<"/", "w">> THEN ReadDir(<<".">>)
    ELSE IF dir = <<"/", "w", "/", "s", "r", "c">> THEN ReadDir(<<"s", "r", "c">>)
    ELSE ReadDir(dir)

\* whether dir holds an executable file called name
HoldsExecutable(dir, name) ==
    /\ ReadDirAt(dir).ok
    /\ \E i \in 1..Len(ReadDirAt(dir).entries) :
           ReadDirAt(dir).entries[i].name = name /\ isExecutable(ReadDirAt(dir).entries[i])

\* whether dir holds an entry called name
HoldsEntry(dir, name) ==
    /\ ReadDirAt(dir).ok
    /\ \E i \in 1..Len(ReadDirAt(dir).entries) : ReadDirAt(dir).entries[i].name = name

\* exec.LookPath over the directories dirs: an empty element of PATH is the
\* working directory, and a file found there is refused (exec.ErrDot)
RECURSIVE LookPathIn(_, _, _)
LookPathIn(dirs, name, wd) ==
    IF dirs = <<>> THEN "not found"
    ELSE IF Head(dirs) = <<>>
    THEN IF HoldsExecutable(wd, name) THEN "dot" ELSE LookPathIn(Tail(dirs), name, wd)
    ELSE IF HoldsExecutable(Head(dirs), name) THEN "found"
    ELSE LookPathIn(Tail(dirs), name, wd)

\* the error with which exec.Cmd.Start fails, or NoError when the child runs
StartError(name, wd, done) ==
    IF name = <<>> THEN <<"exec: no command">>
    ELSE IF Contains(name, "/")
    THEN LET path == Absolute(name, wd)
         IN  IF ~HoldsEntry(Dir(path), Base(path)) THEN <<"no such file or directory">>
             ELSE IF ~HoldsExecutable(Dir(path), Base(path)) THEN <<"permission denied">>
             ELSE IF done THEN <<"context canceled">>
             ELSE NoError
    ELSE CASE LookPathIn(PathDirs, name, wd) = "not found" ->
                  <<"executable file not found in $PATH">>
           [] LookPathIn(PathDirs, name, wd) = "dot" ->
                  <<"cannot run executable found relative to current directory">>
           [] OTHER -> IF done THEN <<"context canceled">> ELSE NoError

\* the error ExternalCommand.Execute makes of the error of cmd.Run
ExternalError(err) ==
    IF err = NoError THEN NoError
    ELSE IF err \in {<<"exit status">>, <<"signal: killed">>}
    THEN <<"command exited with code">>
    ELSE IF err = <<"executable file not found in $PATH">> THEN <<"command not found">>
    ELSE <<"failed to execute">> \o err

--------------------------------------------------------------------------
(* internal/shell: error reporting *)

MinSimilarityLength == 2

abs(x) == IF x < 0 THEN -x ELSE x

isSimilar(a, b) ==
    IF a = <<>> \/ b = <<>> THEN FALSE
    ELSE IF a[1] = b[1] /\ abs(Len(a) - Len(b)) <= 2 THEN TRUE
    ELSE LET minLen == IF Len(b) < Len(a) THEN Len(b) ELSE Len(a)
         IN  IF minLen >= MinSimilarityLength
             THEN SubSeq(a, 1, MinSimilarityLength) = SubSeq(b, 1, MinSimilarityLength)
             ELSE FALSE

\* the orders in which a range over a Go map may give the keys of S
MapOrders(S) ==
    {f \in [1..Cardinality(S) -> S] : \A i, j \in 1..Cardinality(S) : f[i] = f[j] => i = j}

\* the lists suggestSimilarCommands may print for input: the similar
\* built-ins in their order, then the similar alias keys in map order
suggestSimilarCommands(input, c) ==
    IF Len(Fields(input)) = 0 THEN {<<>>}
    ELSE LET command == Fields(input)[1]
             fromBuiltins == SelectSeq(Builtins, LAMBDA b : isSimilar(command, b))
         IN  {fromBuiltins \o order :
                  order \in MapOrders({a \in DOMAIN c.Aliases : isSimilar(command, a)})}

MessageContains(err, phrase) == \E i \in 1..Len(err) : err[i] = phrase

\* the branch handleError takes for err
handleError(err) ==
    IF MessageContains(err, "command not found") THEN "command not found"
    ELSE IF MessageContains(err, "no such file or directory") THEN "no such file or directory"
    ELSE IF MessageContains(err, "permission denied") THEN "permission denied"
    ELSE IF MessageContains(err, "parse error") THEN "parse error"
    ELSE "default"

--------------------------------------------------------------------------
(* internal/history: Manager.  An entry is modelled by its command; the    *)
(* history file does not exist when the manager is created.                *)

New(c) == [entries |-> <<>>, current |-> -1]

\* the entries Add keeps when there are more than HistorySize
Trimmed(entries, c) ==
    IF Len(entries) > c.HistorySize
    THEN SubSeq(entries, Len(entries) - c.HistorySize + 1, Len(entries))
    ELSE entries

\* Add, had it kept the oldest entries
AddKeepOldest(m, command, c) ==
    LET cmd == TrimSpace(command)
    IN  IF cmd = <<>> THEN m
        ELSE IF ~c.HistoryDuplicates /\ Len(m.entries) > 0
                /\ m.entries[Len(m.entries)] = cmd THEN m
        ELSE LET all == Append(m.entries, cmd)
                 kept == IF Len(all) > c.HistorySize THEN SubSeq(all, 1, c.HistorySize)
                         ELSE all
             IN  [entries |-> kept, current |-> Len(kept)]

Add(m, command, c) ==
    LET cmd == TrimSpace(command)
    IN  IF cmd = <<>> THEN m
        ELSE IF ~c.HistoryDuplicates /\ Len(m.entries) > 0
                /\ m.entries[Len(m.entries)] = cmd THEN m
        ELSE LET kept == Trimmed(Append(m.entries, cmd), c)
             IN  [entries |-> kept, current |-> Len(kept)]

\* Previous, Next: the manager afterwards and the string returned
Previous(m) ==
    IF Len(m.entries) = 0 THEN [m |-> m, ret |-> <<>>]
    ELSE LET cur == IF m.current > 0 THEN m.current - 1 ELSE m.current
         IN  [m |-> [m EXCEPT !.current = cur],
              ret |-> IF cur >= 0 /\ cur < Len(m.entries) THEN m.entries[cur + 1] ELSE <<>>]

Next(m) ==
    IF Len(m.entries) = 0 THEN [m |-> m, ret |-> <<>>]
    ELSE IF m.current < Len(m.entries) - 1
    THEN [m |-> [m EXCEPT !.current = m.current + 1], ret |-> m.entries[m.current + 2]]
    ELSE [m |-> [m EXCEPT !.current = Len(m.entries)], ret |-> <<>>]

Reset(m) == [m EXCEPT !.current = Len(m.entries)]

Clear(m) == [entries |-> <<>>, current |-> -1]

\* the record of a call of the manager: the operation op, the operation
\* before it, the cursor it found, the string it returned, every command
\* handed to Add since the manager was created or cleared, and the number of
\* Previous calls made in a row since a command was last handed to Add (-1
\* after another call)
Called(op, from, ret, added, run) ==
    [called |-> TRUE, op |-> op, prev |-> hcall.op, from |-> from, ret |-> ret,
     added |-> added, run |-> run]

NotCalled ==
    [called |-> FALSE, op |-> "New", prev |-> "none", from |-> -1, ret |-> <<>>,
     added |-> <<>>, run |-> 0]

MaxAdds == 4
MaxHistorySize == 2

HistoryCommands == {<<>>, <<" ", " ">>, <<"a">>, <<" ", "a", " ">>, <<"b">>, <<"c">>}

HistoryConfigs ==
    {[DefaultConfig EXCEPT !.HistorySize = n, !.HistoryDuplicates = d] :
        n \in 0..MaxHistorySize, d \in BOOLEAN}

HistoryInit ==
    /\ cfg \in HistoryConfigs
    /\ history = New(cfg)
    /\ hcall = NotCalled
    /\ line = <<>>
    /\ pos = 0
    /\ comp = NoResult
    /\ tab = NoResult
    /\ cmdline = <<>>
    /\ osenv = <<>>
    /\ pres = NoResult
    /\ NoShell
    /\ NoDisplay

CallAdd(command) ==
    /\ Len(hcall.added) < MaxAdds
    /\ history' = Add(history, command, cfg)
    /\ hcall' = Called("Add", history.current, <<>>, Append(hcall.added, command),
                       IF TrimSpace(command) = <<>> THEN hcall.run ELSE 0)
    /\ UNCHANGED <<cfg, compVars, parserVars, shellVars, dispVars>>

CallPrevious ==
    /\ history' = Previous(history).m
    /\ hcall' = Called("Previous", history.current, Previous(history).ret, hcall.added,
                       IF hcall.run >= 0 /\ hcall.run <= Len(history.entries)
                       THEN hcall.run + 1 ELSE hcall.run)
    /\ UNCHANGED <<cfg, compVars, parserVars, shellVars, dispVars>>

CallNext ==
    /\ history' = Next(history).m
    /\ hcall' = Called("Next", history.current, Next(history).ret, hcall.added, -1)
    /\ UNCHANGED <<cfg, compVars, parserVars, shellVars, dispVars>>

CallReset ==
    /\ history' = Reset(history)
    /\ hcall' = Called("Reset", history.current, <<>>, hcall.added, -1)
    /\ UNCHANGED <<cfg, compVars, parserVars, shellVars, dispVars>>

CallClear ==
    /\ history' = Clear(history)
    /\ hcall' = Called("Clear", history.current, <<>>, <<>>, -1)
    /\ UNCHANGED <<cfg, compVars, parserVars, shellVars, dispVars>>

HistoryNext ==
    \/ \E command \in HistoryCommands : CallAdd(command)
    \/ CallPrevious
    \/ CallNext
    \/ CallReset
    \/ CallClear

SpecHistory == HistoryInit /\ [][HistoryNext]_vars

--------------------------------------------------------------------------
(* internal/shell: Shell.Run.  The main loop reads a line, parses it and   *)
(* executes the command; a goroutine listens for SIGINT and SIGTERM.       *)

MaxLines == 2

\* the lines typed at the prompt
ShellLines ==
    {<<" ", " ">>, <<"a", " ", "\"">>, <<"e", "x", "i", "t">>, <<"p", "w", "d">>,
     <<"c", "d">>, <<"c", "d", " ", "~", "/">>, <<"c", "d", " ", "~">>, <<"c", "d", " ", "s", "r", "c">>, <<"c", "d", " ", "~", "/", "f", "u", "n">>,
     <<"a", "l", "i", "a", "s">>, <<"a", "l", "i", "a", "s", " ", "x">>, <<"a", "l", "i", "a", "s", " ", " ", "c", " ", "=", " ", " ", "\"", "'", "l", "s", " ", "-", "l", "'", "\"">>, <<"a", "l", "i", "a", "s", " ", "c", "=", "\"", "'", "'", "a", "'", "'", "\"">>, <<"a", "l", "i", "a", "s", " ", "c", "=", "\"", "a", "'", "\"">>,
     <<"e", "x", "p", "o", "r", "t">>, <<"e", "x", "p", "o", "r", "t", " ", "X", " ", "Y">>, <<"e", "x", "p", "o", "r", "t", " ", "X", "=", "2">>, <<"e", "x", "p", "o", "r", "t", " ", "=", "v">>, <<"e", "x", "p", "o", "r", "t", " ", "H", "O", "M", "E", "=", "/", "w">>, <<"e", "x", "p", "o", "r", "t", " ", "H", "O", "M", "E", "=">>,
     <<"l", "s", " ", "$", "X">>, <<"l", "s", " ", "$", "{", "X", "}", "b">>, <<".", "/", "f", "o", "o">>, <<"x", "i", "t">>, <<"e", "x">>, <<"l", "x">>}

\* the line typed after the second
LaterLines == {<<"l", "s", " ", "$", "X">>}

LinesAt(n) == IF n <= 2 THEN ShellLines ELSE LaterLines

\* the configuration after config.Load: the defaults, or the defaults and
\* a line "export X=1" of the configuration file
ShellConfigs ==
    {DefaultConfig, [DefaultConfig EXCEPT !.Environment = [n \in {<<"X">>} |-> <<"1">>]]}

\* the environment the shell process starts with
ShellEnv ==
    [n \in {<<"H", "O", "M", "E">>, <<"X">>, <<"Y">>} |->
        IF n = <<"H", "O", "M", "E">> THEN HomeDir ELSE IF n = <<"X">> THEN <<"0">> ELSE <<"$", "X">>]

Signals == {"SIGINT", "SIGTERM"}

\* what Execute of a built-in command other than exit returns and leaves
BuiltinExecute(cmd, c, env, wd, checked) ==
    CASE cmd.kind = "Cd" ->
             [err |-> CdExecute(cmd.args, wd, env).err, cfg |-> c, env |-> env,
              wd |-> CdExecute(cmd.args, wd, env).wd,
              target |-> CdExecute(cmd.args, wd, env).dir]
      [] cmd.kind = "Alias" ->
             [err |-> AliasExecute(cmd.args, c).err, cfg |-> AliasExecute(cmd.args, c).cfg,
              env |-> env, wd |-> wd, target |-> <<>>]
      [] cmd.kind = "Export" ->
             [err |-> ExportExecute(cmd.args, c, env, checked).err,
              cfg |-> ExportExecute(cmd.args, c, env, checked).cfg,
              env |-> ExportExecute(cmd.args, c, env, checked).env,
              wd |-> wd, target |-> <<>>]
      [] OTHER -> [err |-> NoError, cfg |-> c, env |-> env, wd |-> wd, target |-> <<>>]

\* the arguments a command was built with
ArgsOf(cmd) ==
    IF cmd.kind = "External" THEN <<cmd.name>> \o cmd.args
    ELSE IF cmd.kind \in {"NoOp", "Pwd", "nil"} THEN <<>>
    ELSE cmd.args

Iteration(input, kind, tokens, argv, target, err, suggestions, end) ==
    [called |-> TRUE, input |-> input, cmd |-> kind, tokens |-> tokens, argv |-> argv,
     target |-> target, err |-> err,
     branch |-> IF err = NoError THEN "none" ELSE handleError(err),
     suggestions |-> suggestions, end |-> end]

\* what handleError prints as suggestions for err and input
SuggestionsFor(err, input, c) ==
    IF err # NoError /\ handleError(err) = "command not found"
    THEN suggestSimilarCommands(input, c)
    ELSE {<<>>}

ShellInit ==
    /\ cfg \in ShellConfigs
    /\ osenv = ShellEnv
    /\ cwd = <<"/", "w">>
    /\ loop = "top"
    /\ nread = 0
    /\ ctxDone = FALSE
    /\ sigChan = <<>>
    /\ listener = TRUE
    /\ child = NoResult
    /\ report = NoResult
    /\ cmdline = <<>>
    /\ pres = NoResult
    /\ line = <<>>
    /\ pos = 0
    /\ comp = NoResult
    /\ tab = NoResult
    /\ history = New(cfg)
    /\ hcall = NotCalled
    /\ NoDisplay

\* mainLoop, had it returned the error of executeCommand
ReturnOnError(err) == IF err = NoError THEN "top" ELSE "returned"

\* where mainLoop stands after executeCommand returned err: the error is
\* handed to handleError and the loop goes on
Continue(err) == "top"

\* mainLoop returns err to Run, whose deferred call cancels the context
Returns(end, err) ==
    /\ loop' = "returned"
    /\ ctxDone' = TRUE
    /\ report' = Iteration(<<>>, "nil", <<>>, <<>>, <<>>, err, <<>>, end)

\* the select at the top of mainLoop
LoopSelect ==
    /\ loop = "top"
    /\ IF ctxDone
       THEN Returns("cancelled", NoError)
       ELSE loop' = "reading" /\ UNCHANGED <<ctxDone, report>>
    /\ UNCHANGED <<cfg, osenv, cwd, nread, sigChan, listener, child, cmdline, pres, compVars,
                   histVars, dispVars>>

\* mainLoop, had it handed a line to history.Add only after parsing it
HandsToHistoryIfParsed(parseErr) == ~parseErr

\* whether mainLoop hands a line that is not blank to history.Add: it does so
\* before executeCommand, whatever Parse will return
HandsToHistory(parseErr) == TRUE

\* Readline returns the line input: the rest of the iteration, up to the
\* return of Execute or, for an external command, the start of the child
ReadLine(input, checked) ==
    /\ loop = "reading"
    /\ nread < MaxLines
    /\ input \in LinesAt(nread + 1)
    /\ nread' = nread + 1
    /\ cmdline' = input
    /\ LET p == Parse(input, cfg, osenv)
           b == BuiltinExecute(p.cmd, cfg, osenv, cwd, checked)
           started == StartError(p.cmd.name, cwd, ctxDone)
       IN  IF TrimSpace(input) = <<>>
           THEN /\ report' = Iteration(input, "skipped", <<>>, <<>>, <<>>, NoError, <<>>, "none")
                /\ loop' = "top"
                /\ UNCHANGED <<cfg, osenv, cwd, child>>
           ELSE IF p.err
           THEN /\ report' = Iteration(input, "nil", <<>>, <<>>, <<>>,
                                       <<"parse error", "unclosed quote">>, <<>>, "none")
                /\ loop' = Continue(<<"parse error", "unclosed quote">>)
                /\ UNCHANGED <<cfg, osenv, cwd, child>>
           ELSE IF p.cmd.kind = "Exit"
           THEN /\ report' = Iteration(input, "Exit", p.tokens, ArgsOf(p.cmd), <<>>, NoError, <<>>, "exit")
                /\ loop' = "exited"
                /\ UNCHANGED <<cfg, osenv, cwd, child>>
           ELSE IF p.cmd.kind = "External"
           THEN IF started = NoError
                THEN /\ child' = [called |-> TRUE, name |-> p.cmd.name, args |-> p.cmd.args,
                                  term |-> FALSE]
                     /\ loop' = "waiting"
                     /\ report' = Iteration(input, "External", p.tokens, ArgsOf(p.cmd), <<>>,
                                            NoError, <<>>, "none")
                     /\ UNCHANGED <<cfg, osenv, cwd>>
                ELSE /\ \E s \in SuggestionsFor(ExternalError(started), input, cfg) :
                         report' = Iteration(input, "External", p.tokens, ArgsOf(p.cmd), <<>>,
                                             ExternalError(started), s, "none")
                     /\ loop' = Continue(ExternalError(started))
                     /\ UNCHANGED <<cfg, osenv, cwd, child>>
           ELSE /\ report' = Iteration(input, p.cmd.kind, p.tokens, ArgsOf(p.cmd), b.target,
                                       b.err, <<>>, "none")
                /\ cfg' = b.cfg
                /\ osenv' = b.env
                /\ cwd' = b.wd
                /\ loop' = Continue(b.err)
                /\ UNCHANGED child
    /\ IF TrimSpace(input) # <<>> /\ HandsToHistory(Parse(input, cfg, osenv).err)
       THEN /\ history' = Add(history, input, cfg)
            /\ hcall' = Called("Add", history.current, <<>>, Append(hcall.added, input), 0)
       ELSE UNCHANGED histVars
    /\ UNCHANGED <<ctxDone, sigChan, listener, pres, compVars, dispVars>>

\* Readline returns readline.ErrInterrupt
ReadInterrupt ==
    /\ loop = "reading"
    /\ loop' = "top"
    /\ UNCHANGED <<cfg, osenv, cwd, nread, ctxDone, sigChan, listener, child, report,
                   cmdline, pres, compVars,
                   histVars, dispVars>>

\* Readline returns io.EOF
ReadEOF ==
    /\ loop = "reading"
    /\ Returns("eof", NoError)
    /\ UNCHANGED <<cfg, osenv, cwd, nread, sigChan, listener, child, cmdline, pres, compVars,
                   histVars, dispVars>>

\* Readline returns another error
ReadFail ==
    /\ loop = "reading"
    /\ Returns("read failure", <<"failed to read input">>)
    /\ UNCHANGED <<cfg, osenv, cwd, nread, sigChan, listener, child, cmdline, pres, compVars,
                   histVars, dispVars>>

\* cmd.Run returns err: the end of the iteration that started the child
ChildEnds(err) ==
    /\ child' = NoResult
    /\ report' = [report EXCEPT !.err = ExternalError(err),
                                !.branch = IF err = NoError THEN "none"
                                           ELSE handleError(ExternalError(err))]
    /\ loop' = Continue(ExternalError(err))
    /\ UNCHANGED <<cfg, osenv, cwd, nread, ctxDone, sigChan, listener, cmdline, pres, compVars,
                   histVars, dispVars>>

\* the child exits by itself
ChildExit(code) ==
    /\ loop = "waiting"
    /\ ChildEnds(IF code = 0 THEN NoError ELSE <<"exit status">>)

\* exec.CommandContext kills the child of a cancelled context
ChildKilled ==
    /\ loop = "waiting"
    /\ ctxDone
    /\ ChildEnds(<<"signal: killed">>)

\* a signal arrives: signal.Notify drops it when sigChan is full
Signal(sig) ==
    /\ loop \in {"top", "reading", "waiting"}
    /\ sigChan' = IF Len(sigChan) < 1 THEN Append(sigChan, sig) ELSE sigChan
    /\ child' = IF loop = "waiting" /\ sig = "SIGTERM" THEN [child EXCEPT !.term = TRUE]
                ELSE child
    /\ UNCHANGED <<cfg, osenv, cwd, loop, nread, ctxDone, listener, report, cmdline, pres,
                   compVars,
                   histVars, dispVars>>

\* the goroutine of setupSignalHandling receives a signal
Listener ==
    /\ listener
    /\ loop \in {"top", "reading", "waiting"}
    /\ sigChan # <<>>
    /\ sigChan' = Tail(sigChan)
    /\ IF Head(sigChan) = "SIGTERM"
       THEN ctxDone' = TRUE /\ listener' = FALSE
       ELSE UNCHANGED <<ctxDone, listener>>
    /\ UNCHANGED <<cfg, osenv, cwd, loop, nread, child, report, cmdline, pres, compVars,
                   histVars, dispVars>>

\* the goroutine of setupSignalHandling sees the context done
ListenerDone ==
    /\ listener
    /\ loop # "exited"
    /\ ctxDone
    /\ listener' = FALSE
    /\ UNCHANGED <<cfg, osenv, cwd, loop, nread, ctxDone, sigChan, child, report, cmdline,
                   pres, compVars,
                   histVars, dispVars>>

ShellNext ==
    \/ LoopSelect
    \/ \E input \in ShellLines, checked \in BOOLEAN : ReadLine(input, checked)
    \/ ReadInterrupt
    \/ ReadEOF
    \/ ReadFail
    \/ \E code \in {0, 1} : ChildExit(code)
    \/ ChildKilled
    \/ \E sig \in Signals : Signal(sig)
    \/ Listener
    \/ ListenerDone

SpecShell == ShellInit /\ [][ShellNext]_vars

--------------------------------------------------------------------------
(* Properties of a shell session *)

\* the last iteration of the main loop ran the command kind
Ran(kind) == report # NoResult /\ report.cmd = kind

\* this step is an iteration of the main loop that ran the command kind
Runs(kind) == nread' = nread + 1 /\ report'.cmd = kind

\* the text before and after the first "=" of s
BeforeEquals(s) == SubSeq(s, 1, (CHOOSE k \in 1..Len(s) : s[k] = "=" /\ \A j \in 1..(k - 1) : s[j] # "=") - 1)
AfterEquals(s) == SubSeq(s, Len(BeforeEquals(s)) + 2, Len(s))

\* argv is the one argument NAME=v, with a name of name characters and a
\* value without quotes and blanks
PlainDefinition(argv) ==
    /\ Len(argv) = 1
    /\ \E k \in 1..Len(argv[1]) : argv[1][k] = "="
    /\ BeforeEquals(argv[1]) # <<>>
    /\ \A k \in 1..Len(BeforeEquals(argv[1])) : BeforeEquals(argv[1])[k] \in NameChars
    /\ \A k \in 1..Len(AfterEquals(argv[1])) :
           AfterEquals(argv[1])[k] \notin Quotes \cup Whitespace

\* C11: a variable is looked up in the overlay, then in the process
\* environment, and is empty when in neither; export NAME=v puts v in the
\* overlay, only export changes the overlay, and every argument of an
\* external command is the token with each $NAME and ${NAME} replaced by
\* that lookup.
C11_ExportThenExpand ==
    /\ [](Ran("External") =>
              /\ Len(report.argv) = Len(report.tokens)
              /\ \A i \in 1..Len(report.argv) : report.argv[i] = Scanned(report.tokens[i]))
    /\ [][/\ (Runs("Export") /\ report'.err = NoError /\ PlainDefinition(report'.argv)) =>
               /\ BeforeEquals(report'.argv[1]) \in DOMAIN cfg'.Environment
               /\ cfg'.Environment[BeforeEquals(report'.argv[1])] = AfterEquals(report'.argv[1])
          /\ cfg'.Environment # cfg.Environment => Runs("Export")]_vars

\* after export X=2, the command ls $X was started as ls 2
C11_Witness ==
    /\ Ran("External")
    /\ report.input = <<"l", "s", " ", "$", "X">>
    /\ report.argv = <<<<"l", "s">>, <<"2">>>>
    /\ osenv[<<"X">>] = <<"2">>

\* the arguments joined with single spaces
RECURSIVE SpaceJoined(_)
SpaceJoined(argv) ==
    IF argv = <<>> THEN <<>>
    ELSE IF Len(argv) = 1 THEN argv[1]
    ELSE argv[1] \o <<" ">> \o SpaceJoined(Tail(argv))

HasEquals(s) == \E k \in 1..Len(s) : s[k] = "="

\* s without the whitespace around it
Stripped(s) ==
    IF \A k \in 1..Len(s) : s[k] \in Whitespace \cup {"\n", "\r"} THEN <<>>
    ELSE LET first == CHOOSE k \in 1..Len(s) :
                          /\ s[k] \notin Whitespace \cup {"\n", "\r"}
                          /\ \A j \in 1..(k - 1) : s[j] \in Whitespace \cup {"\n", "\r"}
             last == CHOOSE k \in 1..Len(s) :
                         /\ s[k] \notin Whitespace \cup {"\n", "\r"}
                         /\ \A j \in (k + 1)..Len(s) : s[j] \in Whitespace \cup {"\n", "\r"}
         IN  SubSeq(s, first, last)

\* s without one layer of matching quotes around it
Unquoted(s) ==
    IF Len(s) >= 2 /\ s[1] \in Quotes /\ s[Len(s)] = s[1]
    THEN SubSeq(s, 2, Len(s) - 1)
    ELSE s

\* the name and the value a definition with the arguments argv stores
StoredName(argv) == Stripped(BeforeEquals(SpaceJoined(argv)))
StoredValue(argv) == Unquoted(Stripped(AfterEquals(SpaceJoined(argv))))

\* the last iteration ran a definition of the command kind without error
Defined(kind) ==
    /\ Ran(kind)
    /\ report.err = NoError
    /\ report.argv # <<>>

\* C13: a successful alias or export definition stores, under the trimmed
\* text before the first "=" of the space-joined arguments, the text after
\* it with the surrounding whitespace and exactly one layer of matching
\* quotes removed.
C13_StoredDefinition ==
    /\ Defined("Alias") =>
           /\ StoredName(report.argv) \in DOMAIN cfg.Aliases
           /\ cfg.Aliases[StoredName(report.argv)] = StoredValue(report.argv)
    /\ Defined("Export") =>
           /\ StoredName(report.argv) \in DOMAIN cfg.Environment
           /\ cfg.Environment[StoredName(report.argv)] = StoredValue(report.argv)

\* the error of a definition without "="
InvalidFormat(kind) ==
    IF kind = "Alias" THEN <<"alias: invalid format">> ELSE <<"export: invalid format">>

\* C14: alias and export with arguments whose space-joined text holds no "="
\* fail with an invalid-format error, and with no arguments succeed; either
\* way the alias table, the overlay and the process environment stay as
\* they were.
C14_InvalidFormat ==
    [][\A kind \in {"Alias", "Export"} :
           (Runs(kind) /\ ~HasEquals(SpaceJoined(report'.argv))) =>
               /\ report'.err = IF report'.argv = <<>> THEN NoError ELSE InvalidFormat(kind)
               /\ cfg' = cfg
               /\ osenv' = osenv]_vars

\* export X Y was refused
C14_Witness ==
    /\ Ran("Export")
    /\ report.argv = <<<<"X">>, <<"Y">>>>
    /\ report.err = InvalidFormat("Export")
    /\ report.branch = "default"

\* os.Setenv refuses the name
Unsettable(name) == name = <<>> \/ HasEquals(name)

\* C15: export stores the value in the overlay and sets it in the process
\* environment; when the process environment cannot be set, Execute
\* returns an error.
C15_ExportPropagates ==
    (Ran("Export") /\ HasEquals(SpaceJoined(report.argv))) =>
        LET name == StoredName(report.argv)
        IN  /\ name \in DOMAIN cfg.Environment
            /\ IF Unsettable(name)
               THEN report.err # NoError
               ELSE /\ report.err = NoError
                    /\ name \in DOMAIN osenv
                    /\ osenv[name] = cfg.Environment[name]

\* the names a path is made of
RECURSIVE Components(_)
Components(p) ==
    IF p = <<>> THEN <<>>
    ELSE LET cut == IF \E k \in 1..Len(p) : p[k] = "/"
                    THEN CHOOSE k \in 1..Len(p) : p[k] = "/" /\ \A j \in 1..(k - 1) : p[j] # "/"
                    ELSE Len(p) + 1
             name == SubSeq(p, 1, cut - 1)
             rest == Components(SubSeq(p, cut + 1, Len(p)))
         IN  IF name \in {<<>>, <<".">>} THEN rest ELSE <<name>> \o rest

\* the home directory of the user, empty when unknown
Home == IF <<"H", "O", "M", "E">> \in DOMAIN osenv THEN osenv[<<"H", "O", "M", "E">>] ELSE <<>>

\* the directory that dir names from the working directory, as names
Resolved(dir) ==
    IF dir # <<>> /\ dir[1] = "/" THEN Components(dir) ELSE Components(cwd) \o Components(dir)

\* dir names a directory
Exists(dir) == dir # <<>> /\ \E d \in Directories : Components(d) = Resolved(dir)

Ended(l) == l \in {"returned", "exited"}

\* C17: an error from parsing a line or from executing its command is
\* reported and the loop goes back to its top, from where it reads the next
\* line unless the context is cancelled; the loop ends only on end of
\* input, on another read failure, on cancellation and on exit.
C17_LoopGoesOn ==
    [][/\ (loop = "reading" /\ nread' = nread + 1 /\ report'.err # NoError) =>
              loop' = "top" /\ report'.branch # "none"
       /\ (loop = "waiting" /\ loop' # "waiting") =>
              /\ loop' = "top"
              /\ report'.err # NoError => report'.branch # "none"
       /\ (loop = "top" /\ loop' # "top" /\ ~ctxDone) => loop' = "reading"
       /\ (Ended(loop') /\ ~Ended(loop)) =>
              \/ loop' = "exited" /\ Runs("Exit")
              \/ loop' = "returned" /\ loop = "top" /\ ctxDone
              \/ loop' = "returned" /\ loop = "reading" /\ nread' = nread
                                    /\ report'.end \in {"eof", "read failure"}]_vars

\* the unclosed quote of the first line was reported and the loop is reading
\* the second line
C17_Witness ==
    /\ report # NoResult
    /\ report.err = <<"parse error", "unclosed quote">>
    /\ report.branch = "parse error"
    /\ loop = "reading"
    /\ nread = 1

\* C18: while an external command runs, a terminate signal that has arrived
\* leads the listener to cancel the context (once the listener has nothing
\* left to receive, the context is cancelled), the child of a cancelled
\* context is killed with an error from Execute, and receiving the
\* interrupt signal neither cancels the context nor ends the loop.
C18_TerminateKillsChild ==
    /\ []((loop = "waiting" /\ child.term /\ sigChan = <<>>) => ctxDone)
    /\ [][/\ ChildKilled => report'.err # NoError /\ child' = NoResult
          /\ (Listener /\ Head(sigChan) = "SIGINT") =>
                 ctxDone' = ctxDone /\ loop' = loop /\ listener']_vars

\* similar: the same first character and lengths within 2, or the same
\* first two characters
Similar(a, b) ==
    /\ a # <<>> /\ b # <<>>
    /\ \/ a[1] = b[1] /\ Len(a) - Len(b) \in -2..2
       \/ Len(a) >= 2 /\ Len(b) >= 2 /\ a[1] = b[1] /\ a[2] = b[2]

\* the command typed on the line s
TypedCommand(s) == Fields(s)[1]

\* the names that can be suggested
Suggestable == {Builtins[i] : i \in 1..Len(Builtins)} \cup DOMAIN cfg.Aliases

\* C19: for a command that is not found the shell suggests exactly the
\* built-in names and alias keys similar to the typed command, each once;
\* for xit it suggests exit.
C19_Suggestions ==
    (Ran("External") /\ report.branch = "command not found") =>
        /\ {report.suggestions[i] : i \in 1..Len(report.suggestions)} =
               {n \in Suggestable : Similar(TypedCommand(report.input), n)}
        /\ TypedCommand(report.input) = <<"x", "i", "t">> => report.suggestions = <<<<"e", "x", "i", "t">>>>

\* this step parses a line that was read
ParsesLine == nread' = nread + 1 /\ report'.cmd # "skipped"

\* C27: once the context is cancelled, no step of the main loop parses or
\* executes a line, whatever the loop was doing when the listener cancelled it.
C27_CancelStopsLoop == [][ctxDone => ~ParsesLine]_vars

\* the overlay of c and the process environment env give the name n the
\* same value
AgreeOn(n, c, env) ==
    /\ n \in DOMAIN c.Environment
    /\ n \in DOMAIN env
    /\ env[n] = c.Environment[n]

\* this step is an export command that defines the name n
Exports(n) ==
    /\ Runs("Export")
    /\ HasEquals(SpaceJoined(report'.argv))
    /\ n = StoredName(report'.argv)

\* C28: a name that an export command puts into the overlay, whether the
\* command succeeds or fails, has the same value in the process environment
\* afterwards, and a name on which the two agree stays so.
C28_OverlayInProcess ==
    [][\A n \in DOMAIN cfg'.Environment :
           (Exports(n) \/ AgreeOn(n, cfg, osenv)) => AgreeOn(n, cfg', osenv')]_vars

\* the newest entry of the history is the line s without the whitespace
\* around it
Recorded(m, s) == m.entries # <<>> /\ m.entries[Len(m.entries)] = Stripped(s)

\* this step is an iteration of the main loop that read a line
ReadsLine == nread' = nread + 1

\* C29: every line read that is not blank is handed to Add and is the newest
\* entry of the history at the end of its iteration, whether it was parsed,
\* failed to parse, or its command failed; it is recorded while its external
\* command is still running; a blank line is neither recorded nor parsed.
C29_RecordedBeforeParsed ==
    /\ [](loop = "waiting" => Recorded(history, cmdline))
    /\ [][ReadsLine =>
              IF Stripped(cmdline') = <<>>
              THEN /\ history' = history
                   /\ hcall' = hcall
                   /\ report'.cmd = "skipped"
                   /\ UNCHANGED <<cfg, osenv, cwd, child>>
              ELSE /\ hcall'.op = "Add"
                   /\ hcall'.added = Append(hcall.added, cmdline')
                   /\ Recorded(history', cmdline')
                   /\ report'.cmd # "skipped"]_vars

\* the line a " was recorded although it failed to parse
C29_Witness ==
    /\ Ran("nil")
    /\ report.input = <<"a", " ", "\"">>
    /\ report.branch = "parse error"
    /\ Recorded(history, report.input)

--------------------------------------------------------------------------
(* Properties of command completion *)

\* the entries of the PATH directories that can be read
PathEntries ==
    UNION {{ReadDir(PathDirs[d]).entries[i] : i \in 1..Len(ReadDir(PathDirs[d]).entries)} :
               d \in {k \in 1..Len(PathDirs) : ReadDir(PathDirs[k]).ok}}

\* the executable files among them
PathExecutables == {e.name : e \in {x \in PathEntries : ~x.isDir /\ x.exec}}

\* the command names: built-ins, alias keys and executables of PATH
CommandNames ==
    {Builtins[i] : i \in 1..Len(Builtins)} \cup DOMAIN cfg.Aliases \cup PathExecutables

\* C20: the list of command completion is sorted, holds no name twice, and
\* holds exactly the built-in names, alias keys and executable files of the
\* readable PATH directories that start with the prefix.
C20_CommandCompletion ==
    (Completed /\ comp.ctx = "command") =>
        /\ ~comp.err
        /\ \A i \in 1..(Len(comp.list) - 1) : StrLess(comp.list[i], comp.list[i + 1])
        /\ \A i, j \in 1..Len(comp.list) : comp.list[i] = comp.list[j] => i = j
        /\ {comp.list[i] : i \in 1..Len(comp.list)} =
               {n \in CommandNames : HasPrefix(n, comp.prefix)}

\* with the aliases ls and cd, the completions of an empty line hold cd, git
\* and ls once each, and neither the directory lib nor the file lsmod
C20_Witness ==
    /\ Completed /\ comp.ctx = "command"
    /\ comp.prefix = <<>>
    /\ cfg.Aliases = ShadowingAliases
    /\ comp.list = <<<<"a", "l", "i", "a", "s">>, <<"c", "d">>, <<"e", "x", "i", "t">>, <<"e", "x", "p", "o", "r", "t">>, <<"g">>, <<"g", "i", "t">>, <<"g", "o">>, <<"h", "e", "l", "p">>,
                     <<"h", "i", "s", "t", "o", "r", "y">>, <<"l", "s">>, <<"p", "w", "d">>>>

\* the completers that list a directory
FileContexts == {"file", "git-file", "git-add-file"}

\* the directory a file completer lists for the prefix handed to it
TargetDirectory(prefix) ==
    expandHomeDirectory(IF Contains(prefix, "/") THEN Dir(prefix) ELSE <<".">>)

Unreadable(dir) == ~ReadDir(dir).ok

NothingOffered == tab.newLine = <<>> /\ tab.length = 0

\* C21: when a file completer cannot read its directory, Complete returns an
\* error and Do returns no candidates and length 0; a readable directory gives
\* no error; the other completers never give an error; and with completion
\* disabled Complete returns no completions and no error.
C21_UnreadableDirectory ==
    comp # NoResult =>
        /\ (comp.ctx \in FileContexts /\ Unreadable(TargetDirectory(comp.prefix))) =>
               comp.err /\ tab.called /\ NothingOffered
        /\ (comp.ctx \in FileContexts /\ ~Unreadable(TargetDirectory(comp.prefix))) =>
               ~comp.err
        /\ comp.ctx \notin FileContexts => ~comp.err
        /\ ~cfg.CompletionEnabled =>
               comp.ctx = "disabled" /\ ~comp.err /\ comp.list = <<>> /\ NothingOffered

\* Tab after "ls zz/x": the directory zz cannot be read
C21_Witness ==
    /\ comp # NoResult /\ comp.ctx = "file"
    /\ comp.prefix = <<"z", "z", "/", "x">>
    /\ comp.err
    /\ tab.called /\ NothingOffered

--------------------------------------------------------------------------
(* Properties of the display functions *)

Prefixed(op) == shown # NoResult /\ shown.op = op

\* p is a prefix of every element of cs
PrefixOfAll(p, cs) == \A i \in 1..Len(cs) : HasPrefix(cs[i], p)

\* the length of the longest prefix that all the elements of cs share
LongestShared(cs) ==
    CHOOSE n \in 0..Len(cs[1]) :
        /\ PrefixOfAll(SubSeq(cs[1], 1, n), cs)
        /\ \A m \in (n + 1)..Len(cs[1]) : ~PrefixOfAll(SubSeq(cs[1], 1, m), cs)

\* C22: GetCommonPrefix returns the empty string for an empty list, the
\* element for a list of one element, and otherwise the longest string that
\* is a prefix of every element, which does not depend on their order.
C22_CommonPrefix ==
    Prefixed("GetCommonPrefix") =>
        LET cs == display.completions
        IN  /\ Len(cs) = 0 => shown.prefix = <<>>
            /\ Len(cs) = 1 => shown.prefix = cs[1]
            /\ Len(cs) >= 1 => shown.prefix = SubSeq(cs[1], 1, LongestShared(cs))

\* testing, test, tester in this order have the common prefix test
C22_Witness ==
    /\ Prefixed("GetCommonPrefix")
    /\ display.completions = <<<<"t", "e", "s", "t", "e", "r">>, <<"t", "e", "s", "t">>, <<"t", "e">>, <<"t", "e", "s", "t", "e", "r">>>>
    /\ shown.prefix = <<"t", "e">>

\* the number of columns a row takes on the screen
Columns(row) == Len(RunesOfString(row))

\* the candidates of a row, which hold no space
RECURSIVE CellsOf(_)
CellsOf(rows) == IF rows = <<>> THEN <<>> ELSE Fields(Head(rows)) \o CellsOf(Tail(rows))

\* every candidate of a row starts at a multiple of the cell width w
Aligned(row, w) ==
    \A i \in 1..Len(RunesOfString(row)) :
        (RunesOfString(row)[i] # " " /\ (i = 1 \/ RunesOfString(row)[i - 1] = " ")) =>
            (i - 1) % w = 0

\* C23: FormatCompletions gives no row for an empty list; the rows hold every
\* candidate once, in the order of the list, each candidate in a cell of one
\* common width that is at least the width of the widest candidate; no row is
\* wider than maxWidth when maxWidth is at least the width of the widest
\* candidate; and four candidates of 5 characters with maxWidth 20 give 2 rows.
C23_FormatRows ==
    Prefixed("FormatCompletions") =>
        LET cs == display.completions
            widest == MaxLen(cs)
        IN  /\ cs = <<>> => shown.rows = <<>>
            /\ CellsOf(shown.rows) = cs
            /\ \E w \in widest..(widest + 2) :
                   \A r \in 1..Len(shown.rows) : w > 0 => Aligned(shown.rows[r], w)
            /\ display.maxWidth >= widest =>
                   \A r \in 1..Len(shown.rows) : Columns(shown.rows[r]) <= display.maxWidth
            /\ (Len(cs) = 4 /\ display.maxWidth = 20 /\ \A i \in 1..4 : Len(cs[i]) = 5) =>
                   Len(shown.rows) = 2

--------------------------------------------------------------------------
(* Properties of the history *)

\* the commands Add accepts out of those handed to it: the ones that are not
\* blank, without the surrounding whitespace, and without a command equal to
\* the one accepted before it unless duplicates are allowed
RECURSIVE Accepted(_, _)
Accepted(added, c) ==
    IF added = <<>> THEN <<>>
    ELSE LET before == Accepted(SubSeq(added, 1, Len(added) - 1), c)
             cmd == TrimSpace(added[Len(added)])
         IN  IF cmd = <<>> THEN before
             ELSE IF ~c.HistoryDuplicates /\ before # <<>> /\ before[Len(before)] = cmd
                  THEN before
             ELSE Append(before, cmd)

\* the last n elements of s, or all of s
LastOf(s, n) == IF Len(s) > n THEN SubSeq(s, Len(s) - n + 1, Len(s)) ELSE s

\* C24: the history holds at most HistorySize entries, they are the most
\* recently accepted commands in the order in which they were added, and no
\* entry is blank.
C24_HistorySize ==
    /\ Len(history.entries) <= cfg.HistorySize
    /\ history.entries = LastOf(Accepted(hcall.added, cfg), cfg.HistorySize)
    /\ \A i \in 1..Len(history.entries) : TrimSpace(history.entries[i]) # <<>>

\* with room for two entries, after a, a blank command, b and c the history
\* holds b and c
C24_Witness ==
    /\ cfg.HistorySize = 2
    /\ hcall.added = <<<<"a">>, <<" ", " ">>, <<"b">>, <<"c">>>>
    /\ history.entries = <<<<"b">>, <<"c">>>>

HistoryCalled(op) == hcall.called /\ hcall.op = op

\* the k-th most recent entry, or the oldest when there are fewer than k
Recent(k) ==
    LET n == Len(history.entries)
    IN  history.entries[IF k <= n THEN n - k + 1 ELSE 1]

\* C25: with entries in the history, the k-th Previous call in a row after a
\* command was handed to Add returns the k-th most recent entry, and the
\* oldest entry once k exceeds their number; Next returns the entry after the
\* one at the cursor and moves there, or returns the empty string and leaves
\* the cursor behind the newest entry when there is none; Next after Reset
\* returns the empty string; and the cursor lies in 0..len(entries).
C25_Navigation ==
    history.entries # <<>> =>
        /\ (HistoryCalled("Previous") /\ hcall.run >= 1) => hcall.ret = Recent(hcall.run)
        /\ HistoryCalled("Next") =>
               IF hcall.from + 2 <= Len(history.entries)
               THEN /\ hcall.ret = history.entries[hcall.from + 2]
                    /\ history.current = hcall.from + 1
               ELSE /\ hcall.ret = <<>>
                    /\ history.current = Len(history.entries)
        /\ (HistoryCalled("Next") /\ hcall.prev = "Reset") => hcall.ret = <<>>
        /\ history.current \in 0..Len(history.entries)

--------------------------------------------------------------------------
(* Properties of quoting *)

\* the ways of writing $X: bare, in double quotes, in single quotes, and
\* with the dollar sign escaped
WaysToWrite == {<<"$", "X">>, <<"\"", "$", "X", "\"">>, <<"'", "$", "X", "'">>, <<"\\", "$", "X">>}

\* every token of the parsed text is one of its whitespace-separated words
WordPerToken == Len(Fields(pres.text)) = Len(pres.tokens)

\* C30: in an external command an argument written $X, "$X", '$X' or \$X
\* becomes the value of X: neither quotes nor a backslash keep the variable
\* from being expanded.
C30_QuotedExpansion ==
    (Parsed /\ ~pres.err /\ pres.cmd.kind = "External" /\ WordPerToken) =>
        \A i \in 2..Len(pres.tokens) :
            Fields(pres.text)[i] \in WaysToWrite =>
                pres.cmd.args[i - 1] = VariableValue(<<"X">>)

\* both arguments of ls '$X' \$X became 0, the value of X in the process
\* environment
C30_Witness ==
    /\ Parsed /\ ~pres.err
    /\ cmdline = <<"l", "s", " ", "'", "$", "X", "'", " ", "\\", "$", "X">>
    /\ cfg = DefaultConfig
    /\ pres.cmd.kind = "External"
    /\ pres.cmd.args = <<<<"0">>, <<"0">>>>

--------------------------------------------------------------------------
(* Properties of the completion prefix *)

\* the entries of the working directory that are not hidden, as completions
VisibleEntries ==
    LET es == ReadDir(<<".">>).entries
        shownOnes == SelectSeq(es, LAMBDA e : e.name[1] # ".")
    IN  [i \in 1..Len(shownOnes) |->
            shownOnes[i].name \o (IF shownOnes[i].isDir THEN <<"/">> ELSE <<>>)]

\* C26: the prefix handed to the completer is the word being typed, which is
\* empty when the cursor follows a space; after "ls " every visible entry of
\* the working directory is offered.  Stated for lines of one-byte characters.
C26_PrefixIsTypedWord ==
    (Completed /\ OneByteLine) =>
        /\ comp.prefix = StringOfRunes(TypedWord(line, pos))
        /\ (line = <<"l", "s", " ">> /\ pos = 3 /\ ~cfg.CompletionShowHidden) =>
               comp.list = VisibleEntries

====
